---- MODULE Spec2Model ----
(***************************************************************************)
(* Analytics core of the NEMS dashboard: the demand analyzer (rolling      *)
(* 30-day history buffer), the cost analyzer and the sustainability        *)
(* analyzer, with the useDemandProfile hook that drives the demand         *)
(* analyzer from asynchronous callers; the bill analyzer with its result   *)
(* cache; and the useRealtimeUpdates hook (polling, retries with backoff,  *)
(* WebSocket fallback), whose own clock counts seconds.                    *)
(*                                                                         *)
(* Time is counted in hours since the epoch; a reading's timestamp and the *)
(* host clock are integers in that unit.  JavaScript numbers that can be   *)
(* NaN or infinite are modelled as exact rationals extended with NaN and   *)
(* the two infinities (IEEE rounding of finite values is not modelled).    *)
(***************************************************************************)
EXTENDS Integers, Sequences, FiniteSets, Bags, TLC

\* ------------------------------------------------------------------ bounds
MaxBatch == 2        \* longest reading array handed to one call
MaxAppended == 3     \* total number of readings handed to the demand analyzer
MaxHookAppended == 2 \* the same, when the hooks drive the analyzer
MaxValue == 3        \* largest reading value (kW / kWh)
MaxTicks == 1        \* how many times the host clock advances
StartNow == 2000     \* host clock at start (hours)
MaxPrev == 1         \* longest previous-period reading array
MaxUuid == 2         \* distinct outcomes of crypto.randomUUID()
MaxSeed == 1         \* distinct hidden states of the Math.random() generator
MaxDemandValue == 5  \* largest value in a batch analysed on its own
MaxAnomalyBatch == 6 \* longest reading array searched for anomalies
MaxBillCalls == 3    \* calls of billAnalyzer.analyze in one run
MaxClock == 60       \* seconds the realtime hook is followed for
MaxFromCalls == 4    \* calls of supabase.from by the realtime hook
MaxSockets == 2      \* fallback WebSockets that exist at one time

\* ------------------------------------------------------- program constants
HoursPerDay == 24
WINDOW_DAYS == 30

PEAK_RATE_CENTS == 15        \* PEAK_RATE 0.15, in hundredths
OFF_PEAK_RATE_CENTS == 8     \* OFF_PEAK_RATE 0.08, in hundredths
DEMAND_CHARGE_RATE == 10
FIXED_CHARGE == 50
TAX_RATE_PERCENT == 8        \* TAX_RATE 0.08, in hundredths
PEAK_START == 9
PEAK_END == 17
EMISSION_FACTOR_TENTHS == 4  \* 0.4 kg CO2/kWh, in tenths
BASELINE_EMISSIONS_TENTHS == 5  \* BASELINE_EMISSIONS 0.5, in tenths
FORECAST_HOURS == 24
SOLAR_SHARE_PERCENT == 15    \* totalUsage * 0.15
WIND_SHARE_PERCENT == 25     \* totalUsage * 0.25
SQUARE_FOOTAGE == 10000
INDUSTRY_BENCHMARK == 75
PEAK_EFFICIENCY == 85
OFF_PEAK_EFFICIENCY == 90
CARBON_WEIGHT_TENTHS == 3    \* weights of the overall score, in tenths
RENEWABLE_WEIGHT_TENTHS == 3
EFFICIENCY_WEIGHT_TENTHS == 2
WASTE_WEIGHT_TENTHS == 2
CARBON_SCORE_THRESHOLD == 70
RENEWABLE_SCORE_THRESHOLD == 50
SCORE_MONTHS == 12
PEAK_HOURS_DIVISOR == 9           \* the sum over the peak cells / 9
MONTHS_PER_YEAR == 12
DAYS_PER_WEEK == 7
HIGH_DEVIATION == 2           \* deviation > 2 is severity 'high'
MEDIUM_DEVIATION == 1         \* deviation > 1 is severity 'medium'
EPOCH_WEEKDAY == 4           \* 1 January 1970 was a Thursday
FORECAST_BAND_PERCENT == 20  \* the 0.2 of the confidence interval, in hundredths

PEAK_THRESHOLD_PERCENT == 80      \* PEAK_THRESHOLD 0.8, in hundredths
TREND_DELTA == 1                  \* averageDelta > 1 / < -1
MIN_PREDICTION_READINGS == 24     \* recentData.length < 24
SCHEDULE_LEAD_HOURS == 2          \* hoursUntilPeak < 2
WEATHER_IMPACT_PERCENT == 15
SEASONALITY_IMPACT_PERCENT == 10
OPERATIONAL_IMPACT_PERCENT == 20
ML_CACHE_TTL_HOURS == 1            \* ML_CACHE_TTL = 1000 * 60 * 60 ms
INTERVAL == 60                    \* interval = 60 (seconds)
CACHE_TIME == 300                 \* cacheTime = 300 (seconds)
RETRY_ATTEMPTS == 3               \* retryAttempts = 3
CACHE_CLEANUP_PERIOD == 60        \* setInterval(..., 60000)

VARIABLES now, historicalData, profile, lastCall, appended, hook,
          input, costRuns, sustRuns, bill, rt

vars == <<now, historicalData, profile, lastCall, appended, hook,
          input, costRuns, sustRuns, bill, rt>>

demandVars == <<historicalData, profile, lastCall, appended, hook>>

pureVars == <<input, costRuns, sustRuns>>

extVars == <<bill, rt>>

\* ============================================================ JS numbers
\* A number is an exact rational n/d in lowest terms (k = "fin"), NaN, or an
\* infinity whose sign is n.
Abs(x) == IF x < 0 THEN -x ELSE x

RECURSIVE GCD(_, _)
GCD(a, b) == IF b = 0 THEN a ELSE GCD(b, a % b)

Fin(n, d) ==
  LET nn == IF d < 0 THEN -n ELSE n
      dd == IF d < 0 THEN -d ELSE d
      g == GCD(Abs(nn), dd)
  IN  [k |-> "fin", n |-> nn \div g, d |-> dd \div g]

Num(i) == Fin(i, 1)

NaN == [k |-> "nan", n |-> 0, d |-> 1]

PosInf == [k |-> "inf", n |-> 1, d |-> 1]

NegInf == [k |-> "inf", n |-> -1, d |-> 1]

Sign(x) == IF x.n > 0 THEN 1 ELSE IF x.n < 0 THEN -1 ELSE 0

Inf(sgn) == IF sgn < 0 THEN NegInf ELSE PosInf

IsZero(x) == x.k = "fin" /\ x.n = 0

JsNeg(x) == [x EXCEPT !.n = -x.n]

JsAdd(x, y) ==
  IF x.k = "nan" \/ y.k = "nan" THEN NaN
  ELSE IF x.k = "inf" /\ y.k = "inf" THEN (IF x.n = y.n THEN x ELSE NaN)
  ELSE IF x.k = "inf" THEN x
  ELSE IF y.k = "inf" THEN y
  ELSE LET g == GCD(x.d, y.d)
       IN  Fin(x.n * (y.d \div g) + y.n * (x.d \div g), (x.d \div g) * y.d)

JsSub(x, y) == JsAdd(x, JsNeg(y))

JsMul(x, y) ==
  IF x.k = "nan" \/ y.k = "nan" THEN NaN
  ELSE IF x.k = "inf" \/ y.k = "inf"
       THEN (IF IsZero(x) \/ IsZero(y) THEN NaN ELSE Inf(Sign(x) * Sign(y)))
  ELSE IF x.n = 0 \/ y.n = 0 THEN Num(0)
  ELSE LET g == GCD(Abs(x.n), y.d)
           h == GCD(Abs(y.n), x.d)
       IN  Fin((x.n \div g) * (y.n \div h), (x.d \div h) * (y.d \div g))

JsDiv(x, y) ==
  IF x.k = "nan" \/ y.k = "nan" THEN NaN
  ELSE IF x.k = "inf" /\ y.k = "inf" THEN NaN
  ELSE IF x.k = "inf" THEN Inf(IF Sign(y) < 0 THEN -Sign(x) ELSE Sign(x))
  ELSE IF y.k = "inf" THEN Num(0)
  ELSE IF y.n = 0 THEN (IF x.n = 0 THEN NaN ELSE Inf(Sign(x)))
  ELSE IF x.n = 0 THEN Num(0)
  ELSE LET g == GCD(Abs(x.n), Abs(y.n))
           h == GCD(x.d, y.d)
       IN  Fin((x.n \div g) * (y.d \div h), (x.d \div h) * (y.n \div g))

JsAbs(x) == [x EXCEPT !.n = Abs(x.n)]

\* x < y; every comparison with NaN is false
JsLt(x, y) ==
  IF x.k = "nan" \/ y.k = "nan" THEN FALSE
  ELSE IF x.k = "inf" THEN x.n < 0 /\ ~(y.k = "inf" /\ y.n < 0)
  ELSE IF y.k = "inf" THEN y.n > 0
  ELSE x.n * y.d < y.n * x.d

JsGt(x, y) == JsLt(y, x)

JsLe(x, y) == x.k # "nan" /\ y.k # "nan" /\ ~JsLt(y, x)

\* Math.max and Math.min of two numbers: NaN when either is NaN
JsMax(x, y) ==
  IF x.k = "nan" \/ y.k = "nan" THEN NaN ELSE IF JsLt(x, y) THEN y ELSE x

JsMin(x, y) ==
  IF x.k = "nan" \/ y.k = "nan" THEN NaN ELSE IF JsLt(y, x) THEN y ELSE x

\* Math.round: the nearest integer, a tie going up; NaN and the infinities
\* are returned unchanged
JsRound(x) ==
  IF x.k # "fin" THEN x ELSE Num((2 * x.n + x.d) \div (2 * x.d))

\* ------------------------------------------------------------ demand: data
Callers == {1, 2}

\* a low and a high reading value
Values == {1, MaxValue}

\* timestamps of the readings a caller can supply: one taken at the start,
\* one taken exactly 30 days earlier, which leaves the window as soon as the
\* clock advances, and one taken 31 days earlier
Timestamps == {StartNow, StartNow - WINDOW_DAYS * HoursPerDay,
               StartNow - (WINDOW_DAYS + 1) * HoursPerDay}

EnergyData == [timestamp : Timestamps, value : Values]

Batches == UNION {[1..n -> EnergyData] : n \in 0..MaxBatch}

\* the latest realtime reading handed to the hook, none or one
Realtime == UNION {[1..n -> EnergyData] : n \in 0..1}

\* --------------------------------------------------- demand: pure functions
\* Array.prototype.sort is stable: an element is placed after every element
\* whose timestamp is not greater than its own.
InsertByTimestamp(r, s) ==
  LET k == Cardinality({i \in 1..Len(s) : s[i].timestamp <= r.timestamp})
  IN  SubSeq(s, 1, k) \o <<r>> \o SubSeq(s, k + 1, Len(s))

RECURSIVE SortByTimestamp(_)
SortByTimestamp(s) ==
  IF s = <<>> THEN <<>>
  ELSE InsertByTimestamp(s[Len(s)], SortByTimestamp(SubSeq(s, 1, Len(s) - 1)))

thirtyDaysAgo(t) == t - WINDOW_DAYS * HoursPerDay

InWindow(r, t) == r.timestamp >= thirtyDaysAgo(t)

\* faulty variants of updateHistoricalData: readings the buffer already holds
\* skipped, the trim applied to the old buffer only, the old buffer dropped,
\* no trim
updateHistoricalData_skipKnown(h, data, t) ==
  SelectSeq(SortByTimestamp(h \o SelectSeq(data, LAMBDA r :
                                     \A i \in 1..Len(h) : h[i] # r)),
            LAMBDA r : InWindow(r, t))

updateHistoricalData_trimOldOnly(h, data, t) ==
  SortByTimestamp(SelectSeq(h, LAMBDA r : InWindow(r, t)) \o data)

updateHistoricalData_replace(h, data, t) ==
  SelectSeq(SortByTimestamp(data), LAMBDA r : InWindow(r, t))

updateHistoricalData_noTrim(h, data, t) ==
  SortByTimestamp(h \o data)

\* the new value of this.historicalData after updateHistoricalData(data) at t
updateHistoricalData(h, data, t) ==
  SelectSeq(SortByTimestamp(h \o data), LAMBDA r : InWindow(r, t))

RECURSIVE SumInts(_)
SumInts(xs) == IF xs = <<>> THEN 0 ELSE xs[1] + SumInts(Tail(xs))

calculateCurrentDemand(recentData) ==
  IF Len(recentData) = 0 THEN 0 ELSE recentData[Len(recentData)].value

MaxOf(S) == CHOOSE m \in S : \A x \in S : x <= m

MaxOrZero(S) == IF S = {} THEN 0 ELSE MaxOf(S)

calculatePeakDemand(h) ==
  IF Len(h) = 0 THEN 0 ELSE MaxOf({h[i].value : i \in 1..Len(h)})

\* Date.getHours(), the host running on UTC
getHours(ts) == ts % HoursPerDay

\* midnight of the host's current day
startOfDay(t) == t - (t % HoursPerDay)

\* faulty variant of analyzeTrend: the thresholds inclusive
analyzeTrend_inclusive(recentData) ==
  IF Len(recentData) < 2 THEN "stable"
  ELSE LET deltas == [i \in 1..(Len(recentData) - 1) |->
                        recentData[i + 1].value - recentData[i].value]
           averageDelta == JsDiv(Num(SumInts(deltas)), Num(Len(deltas)))
       IN  IF ~JsLt(averageDelta, Num(TREND_DELTA)) THEN "increasing"
           ELSE IF ~JsGt(averageDelta, Num(-TREND_DELTA)) THEN "decreasing"
           ELSE "stable"

analyzeTrend(recentData) ==
  IF Len(recentData) < 2 THEN "stable"
  ELSE LET deltas == [i \in 1..(Len(recentData) - 1) |->
                        recentData[i + 1].value - recentData[i].value]
           averageDelta == JsDiv(Num(SumInts(deltas)), Num(Len(deltas)))
       IN  IF JsGt(averageDelta, Num(TREND_DELTA)) THEN "increasing"
           ELSE IF JsLt(averageDelta, Num(-TREND_DELTA)) THEN "decreasing"
           ELSE "stable"

\* total / (hourCounts[hour] || 1) over the readings of the given hour
hourlyAverage(recentData, hour) ==
  LET atHour == SelectSeq(recentData, LAMBDA r : getHours(r.timestamp) = hour)
      total == SumInts([i \in 1..Len(atHour) |-> atHour[i].value])
  IN  JsDiv(Num(total), Num(IF Len(atHour) = 0 THEN 1 ELSE Len(atHour)))

\* the reduce with a strict > keeps the earliest hour of the highest average
peakHourOf(recentData) ==
  CHOOSE h \in 0..(HoursPerDay - 1) :
    /\ \A g \in 0..(HoursPerDay - 1) :
         ~JsGt(hourlyAverage(recentData, g), hourlyAverage(recentData, h))
    /\ \A g \in 0..(h - 1) :
         JsLt(hourlyAverage(recentData, g), hourlyAverage(recentData, h))

\* faulty variant of predictNextPeak: the day is advanced only when the
\* current hour is past the peak hour
predictNextPeak_unlessPast(recentData, t) ==
  IF Len(recentData) < MIN_PREDICTION_READINGS
  THEN [timestamp |-> t, predictedDemand |-> Num(0), confidence |-> Num(0),
        range |-> [low |-> Num(0), high |-> Num(0)]]
  ELSE LET hour == peakHourOf(recentData)
           nextPeakDate == startOfDay(t) + hour
                           + (IF getHours(t) > hour THEN HoursPerDay ELSE 0)
           adjustedPrediction ==
             JsMul(hourlyAverage(recentData, hour),
                   JsAdd(JsAdd(JsAdd(Num(1), Fin(WEATHER_IMPACT_PERCENT, 100)),
                               Fin(SEASONALITY_IMPACT_PERCENT, 100)),
                         Fin(OPERATIONAL_IMPACT_PERCENT, 100)))
       IN  [timestamp |-> nextPeakDate,
            predictedDemand |-> adjustedPrediction,
            confidence |-> Fin(85, 100),
            range |-> [low |-> JsMul(adjustedPrediction, Fin(9, 10)),
                       high |-> JsMul(adjustedPrediction, Fin(11, 10))]]

\* the PeakPrediction of predictNextPeak(recentData) at host time t; the
\* factor and contributor lists are left out
predictNextPeak(recentData, t) ==
  IF Len(recentData) < MIN_PREDICTION_READINGS
  THEN [timestamp |-> t, predictedDemand |-> Num(0), confidence |-> Num(0),
        range |-> [low |-> Num(0), high |-> Num(0)]]
  ELSE LET hour == peakHourOf(recentData)
           nextPeakDate == startOfDay(t) + hour
                           + (IF getHours(t) >= hour THEN HoursPerDay ELSE 0)
           adjustedPrediction ==
             JsMul(hourlyAverage(recentData, hour),
                   JsAdd(JsAdd(JsAdd(Num(1), Fin(WEATHER_IMPACT_PERCENT, 100)),
                               Fin(SEASONALITY_IMPACT_PERCENT, 100)),
                         Fin(OPERATIONAL_IMPACT_PERCENT, 100)))
       IN  [timestamp |-> nextPeakDate,
            predictedDemand |-> adjustedPrediction,
            confidence |-> Fin(85, 100),
            range |-> [low |-> JsMul(adjustedPrediction, Fin(9, 10)),
                       high |-> JsMul(adjustedPrediction, Fin(11, 10))]]

\* Math.round(x * 10) / 10
roundToTenth(x) == JsDiv(JsRound(JsMul(x, Num(10))), Num(10))

\* Of a recommendation the type, the priority and the impact are kept; the
\* id, the texts and the time window are left out.
\* faulty variant of immediateRecommendation: taken at 80% of the peak too
immediateRecommendation_atThreshold(currentDemand, peakDemand) ==
  IF ~JsLt(Num(currentDemand),
           JsMul(Num(peakDemand), Fin(PEAK_THRESHOLD_PERCENT, 100)))
  THEN <<[type |-> "immediate", priority |-> "high",
          impact |-> roundToTenth(JsSub(Num(currentDemand),
                                        JsMul(Num(peakDemand), Fin(7, 10))))]>>
  ELSE <<>>

\* the immediate action for a high demand, pushed or not
immediateRecommendation(currentDemand, peakDemand) ==
  IF JsGt(Num(currentDemand),
          JsMul(Num(peakDemand), Fin(PEAK_THRESHOLD_PERCENT, 100)))
  THEN <<[type |-> "immediate", priority |-> "high",
          impact |-> roundToTenth(JsSub(Num(currentDemand),
                                        JsMul(Num(peakDemand), Fin(7, 10))))]>>
  ELSE <<>>

\* the scheduled action for a predicted peak, pushed or not
scheduledRecommendation(prediction, t) ==
  LET hoursUntilPeak == prediction.timestamp - t
  IN  IF hoursUntilPeak < SCHEDULE_LEAD_HOURS
      THEN <<[type |-> "scheduled", priority |-> "medium",
              impact |-> roundToTenth(JsMul(prediction.predictedDemand,
                                            Fin(15, 100)))]>>
      ELSE <<>>

strategicRecommendation(peakDemand) ==
  [type |-> "strategic", priority |-> "low",
   impact |-> roundToTenth(JsMul(Num(peakDemand), Fin(2, 10)))]

\* faulty variant of generateRecommendations: no strategic recommendation
\* while no peak is known
generateRecommendations_strategicIfPeak(currentDemand, peakDemand, prediction, t) ==
  immediateRecommendation(currentDemand, peakDemand)
    \o scheduledRecommendation(prediction, t)
    \o (IF peakDemand > 0 THEN <<strategicRecommendation(peakDemand)>> ELSE <<>>)

\* the recommendations in the order they are pushed
generateRecommendations(currentDemand, peakDemand, prediction, t) ==
  immediateRecommendation(currentDemand, peakDemand)
    \o scheduledRecommendation(prediction, t)
    \o <<strategicRecommendation(peakDemand)>>

\* faulty variant of analyzeDemand: the peak taken over the batch
analyzeDemand_batchPeak(h, recentData, t) ==
  LET currentDemand == calculateCurrentDemand(recentData)
      peakDemand == calculatePeakDemand(recentData)
      nextPeak == predictNextPeak(recentData, t)
  IN  [currentDemand |-> currentDemand,
       peakDemand |-> peakDemand,
       predictedPeak |-> nextPeak.predictedDemand,
       demandTrend |-> analyzeTrend(recentData),
       timeToNextPeak |-> JsMax(Num(0), Num((nextPeak.timestamp - t) * 60)),
       recommendations |->
         generateRecommendations(currentDemand, peakDemand, nextPeak, t),
       predictions |-> [nextPeak |-> nextPeak]]

\* the DemandProfile returned by analyzeDemand(recentData) at host time t, h
\* being the buffer after the merge; realTimeMetrics, patterns and the
\* forecasts of predictions are left out
analyzeDemand(h, recentData, t) ==
  LET currentDemand == calculateCurrentDemand(recentData)
      peakDemand == calculatePeakDemand(h)
      nextPeak == predictNextPeak(recentData, t)
  IN  [currentDemand |-> currentDemand,
       peakDemand |-> peakDemand,
       predictedPeak |-> nextPeak.predictedDemand,
       demandTrend |-> analyzeTrend(recentData),
       timeToNextPeak |-> JsMax(Num(0), Num((nextPeak.timestamp - t) * 60)),
       recommendations |->
         generateRecommendations(currentDemand, peakDemand, nextPeak, t),
       predictions |-> [nextPeak |-> nextPeak]]

SeqToBag(s) == [r \in {s[i] : i \in 1..Len(s)} |->
                  Cardinality({i \in 1..Len(s) : s[i] = r})]

NoProfile ==
  [currentDemand |-> -1, peakDemand |-> -1, predictedPeak |-> Num(-1),
   demandTrend |-> "none", timeToNextPeak |-> Num(-1), recommendations |-> <<>>,
   predictions |-> [nextPeak |-> [timestamp |-> -1, predictedDemand |-> Num(-1),
                                  confidence |-> Num(-1),
                                  range |-> [low |-> Num(-1), high |-> Num(-1)]]]]

NoCall == [op |-> "none", by |-> 0, data |-> <<>>, at |-> StartNow, beforeLen |-> 0]

\* ------------------------------------------------------ bill analyzer: data
\* breakdown.created_at values; the cache key is `bill-analysis-${created_at}`
CreatedAts == {1, 2}

\* the usage data handed to analyze: no reading, one reading, two readings
BillUsages ==
  {<<>>,
   <<[timestamp |-> 6, value |-> 1]>>,
   <<[timestamp |-> 6, value |-> 1], [timestamp |-> 10, value |-> MaxValue]>>}

\* what claudeClient.analyzeBill does with the prompt: it resolves with
\* content that parses as JSON, it resolves with content that does not parse
\* (ClaudeClient.analyze answers a failed request with content ''), or the
\* promise it returned rejects
ClientOutcomes == {"json", "unparsable", "rejects"}

\* JSON.parse(response.content) of a reply that parses: the service's analysis
\* of the prompt, which is identified here by the readings the prompt carried
ParsedResult(created_at, usageData) ==
  [isError |-> FALSE, error |-> "none", averageCostPerKwh |-> 1,
   anomalies |-> <<"anomaly">>, savingOpportunities |-> <<"opportunity">>,
   breakdown |-> created_at, readings |-> usageData]

\* the object performBillAnalysis returns from its catch block
ErrorResult(error) ==
  [isError |-> TRUE, error |-> error, averageCostPerKwh |-> 0,
   anomalies |-> <<>>, savingOpportunities |-> <<>>]

NoEntry == [cached |-> FALSE, timestamp |-> 0]

NoOutcome == [kind |-> "none"]

IdleCall == [pc |-> "idle", created_at |-> 0, usageData |-> <<>>,
             reply |-> "none", outcome |-> NoOutcome]

\* a fresh BillAnalyzer: mlCache = new Map(), no call of analyze in progress
NewBillAnalyzer ==
  [mlCache |-> [k \in CreatedAts |-> NoEntry],
   calls |-> [c \in Callers |-> IdleCall],
   started |-> 0]

\* ------------------------------------------------ useRealtimeUpdates: data
\* The hook's clock counts seconds since the module was loaded.  A closure
\* of fetchLatestData or setupWebsocketFallback reads the `status` of the
\* render that created it, and reads it only in `status === 'connected'`;
\* `captured` is the value of that comparison.
closureOf(r) == r.status = "connected"

NoTimer == -1

NoCacheEntry == -1

OpenSockets(r) == {s \in BagToSet(r.sockets) : s.state = "open"}

\* the socket wsRef.current points to (at most one), as a set
WsRef(r) == {s \in OpenSockets(r) : s.isRef}

\* wsRef.current = null
clearWsRef(sockets) ==
  LET refs == {s \in BagToSet(sockets) : s.isRef}
  IN  IF refs = {} THEN sockets
      ELSE LET s == CHOOSE x \in refs : TRUE
           IN  (sockets (-) SetToBag({s})) (+) SetToBag({[s EXCEPT !.isRef = FALSE]})

\* wsRef.current.close(); wsRef.current = null: the socket starts its closing
\* handshake, its close event is dispatched later
closeWsRef(sockets) ==
  LET refs == {s \in BagToSet(sockets) : s.isRef}
  IN  IF refs = {} THEN sockets
      ELSE LET s == CHOOSE x \in refs : TRUE
           IN  (sockets (-) SetToBag({s}))
                 (+) SetToBag({[s EXCEPT !.isRef = FALSE, !.state = "closing"]})

\* the function the effect returns: both intervals cleared, the fallback
\* socket closed, the channel removed (pending retry timeouts stay armed)
cleanupEffect(r) ==
  [r EXCEPT !.intervalDue = NoTimer, !.cleanupDue = NoTimer,
            !.sockets = closeWsRef(@), !.channel = "removed"]

\* setupWebsocketFallback() of a render whose status was `captured`
setupWebsocketFallback(r, captured) ==
  IF WsRef(r) # {} THEN r
  ELSE [r EXCEPT
         !.sockets = @ (+) SetToBag({[state |-> "open", isRef |-> TRUE,
                                      captured |-> captured]})]

RECURSIVE setStatus(_, _)
RECURSIVE processData(_)
RECURSIVE fetchLatestData(_, _)
RECURSIVE runEffect(_)

\* the effect body: subscribe to the channel, fetch once, arm both intervals
runEffect(r) ==
  fetchLatestData([r EXCEPT !.channel = "joining",
                            !.intervalDue = r.clock + INTERVAL,
                            !.cleanupDue = r.clock + CACHE_CLEANUP_PERIOD],
                  closureOf(r))

\* setStatus(s) and the render that follows.  setupWebsocketFallback depends
\* on status and fetchLatestData on setupWebsocketFallback, so a render with
\* a new status gives the effect new dependencies: its cleanup runs and then
\* the effect again.  An unmounted component ignores the update.
setStatus(r, s) ==
  IF ~r.mounted \/ r.status = s THEN r
  ELSE runEffect(cleanupEffect([r EXCEPT !.status = s]))

\* processData(newData), without alert thresholds: the cache entry is
\* written and the status set (data, lastUpdated, error and alerts, which no
\* code of the hook reads, are left out)
processData(r) ==
  setStatus([r EXCEPT !.cache = r.clock], "connected")

\* fetchLatestData() up to its await: a cache entry younger than cacheTime is
\* processed again, otherwise supabase.from(table)... is called
fetchLatestData(r, captured) ==
  IF r.cache # NoCacheEntry /\ r.clock - r.cache < CACHE_TIME
    THEN processData(r)
    ELSE [r EXCEPT !.fromCalls = @ + 1,
                   !.inflight = @ (+) SetToBag({captured})]

\* the catch block of fetchLatestData
onFetchError(r, captured) ==
  LET retried ==
        IF r.retryCount < RETRY_ATTEMPTS
          THEN [r EXCEPT !.retryCount = @ + 1,
                         !.timers = @ (+) SetToBag({[due |-> r.clock + 2 ^ (r.retryCount + 1),
                                                     captured |-> captured]})]
          ELSE setupWebsocketFallback(r, captured)
  IN  setStatus(retried, "error")

\* the hook before its first effect ran
FirstRender ==
  [mounted |-> TRUE, clock |-> 0, status |-> "connecting",
   retryCount |-> 0, cache |-> NoCacheEntry,
   intervalDue |-> NoTimer, cleanupDue |-> NoTimer, timers |-> EmptyBag,
   inflight |-> EmptyBag, sockets |-> EmptyBag, channel |-> "removed",
   fromCalls |-> 0, intervalsFired |-> 0, onlyIntervals |-> TRUE]

\* the hook once mounted
MountedHook == runEffect(FirstRender)

InitExt ==
  /\ bill = NewBillAnalyzer
  /\ rt = MountedHook

\* ------------------------------------------------------------------- Init
Init ==
  /\ now = StartNow
  /\ historicalData = <<>>
  /\ profile = NoProfile
  /\ lastCall = NoCall
  /\ appended = EmptyBag
  /\ hook = [c \in Callers |-> [pc |-> "mounted", hasProfile |-> FALSE]]
  /\ input = [current |-> <<>>, previous |-> <<>>]
  /\ costRuns = <<>>
  /\ sustRuns = <<>>
  /\ InitExt

\* ---------------------------------------------------------- demand: actions
Room(data) == BagCardinality(appended) + Len(data) <= MaxAppended

HookRoom(data) == BagCardinality(appended) + Len(data) <= MaxHookAppended

\* the host clock advances by a day
Tick ==
  /\ now < StartNow + MaxTicks * HoursPerDay
  /\ now' = now + HoursPerDay
  /\ UNCHANGED <<demandVars, pureVars, extVars>>

\* demandAnalyzer.updateHistoricalData(data), called directly
CallUpdateHistoricalData ==
  \E data \in Batches :
    /\ Room(data)
    /\ historicalData' = updateHistoricalData(historicalData, data, now)
    /\ appended' = appended (+) SeqToBag(data)
    /\ lastCall' = [op |-> "update", by |-> 0, data |-> data, at |-> now,
                    beforeLen |-> Len(historicalData)]
    /\ UNCHANGED <<now, profile, hook, pureVars, extVars>>

\* demandAnalyzer.analyzeDemand(recentData), called directly
CallAnalyzeDemand ==
  \E data \in Batches :
    /\ Room(data)
    /\ historicalData' = updateHistoricalData(historicalData, data, now)
    /\ profile' = analyzeDemand(historicalData', data, now)
    /\ appended' = appended (+) SeqToBag(data)
    /\ lastCall' = [op |-> "analyze", by |-> 0, data |-> data, at |-> now,
                    beforeLen |-> Len(historicalData)]
    /\ UNCHANGED <<now, hook, pureVars, extVars>>

\* useDemandProfile.updateProfile up to its await: isLoading is set and the
\* fetch of the historical readings is in flight
StartUpdateProfile(c) ==
  /\ hook[c].pc \in {"mounted", "settled"}
  /\ hook' = [hook EXCEPT ![c].pc = "fetching"]
  /\ UNCHANGED <<now, historicalData, profile, lastCall, appended, pureVars, extVars>>

\* useDemandProfile.updateProfile after its await: the fetch settled with
\* fetched (empty when it failed), realtime is the latest realtime reading
\* (empty when there is none); the continuation runs to completion on the
\* single JavaScript thread
FinishUpdateProfile(c) ==
  /\ hook[c].pc = "fetching"
  /\ \E fetched \in Batches, realtime \in Realtime :
       LET allData == fetched \o realtime IN
       /\ Len(allData) <= MaxBatch
       /\ HookRoom(allData)
       /\ IF Len(allData) > 0
          THEN /\ historicalData' = updateHistoricalData(historicalData, allData, now)
               /\ profile' = analyzeDemand(historicalData', allData, now)
               /\ appended' = appended (+) SeqToBag(allData)
               /\ lastCall' = [op |-> "analyze", by |-> c, data |-> allData,
                               at |-> now, beforeLen |-> Len(historicalData)]
               /\ hook' = [hook EXCEPT ![c] = [pc |-> "settled", hasProfile |-> TRUE]]
          ELSE /\ hook' = [hook EXCEPT ![c].pc = "settled"]
               /\ UNCHANGED <<historicalData, profile, appended, lastCall>>
  /\ UNCHANGED <<now, pureVars, extVars>>

Next ==
  \/ Tick
  \/ CallUpdateHistoricalData
  \/ CallAnalyzeDemand

Spec == Init /\ [][Next]_vars

\* batches of readings taken at the start, of every whole value up to
\* MaxDemandValue, for the analyses of one given batch
DemandInputs ==
  UNION {[1..n -> [timestamp : {StartNow}, value : 1..MaxDemandValue]] :
           n \in 0..MaxBatch}

InitDemandInput ==
  /\ now = StartNow
  /\ historicalData = <<>>
  /\ profile = NoProfile
  /\ lastCall = NoCall
  /\ appended = EmptyBag
  /\ hook = [c \in Callers |-> [pc |-> "mounted", hasProfile |-> FALSE]]
  /\ input \in [current : DemandInputs, previous : {<<>>}]
  /\ costRuns = <<>>
  /\ sustRuns = <<>>
  /\ InitExt

\* demandAnalyzer.analyzeDemand(input.current)
CallAnalyzeInput ==
  /\ Room(input.current)
  /\ historicalData' = updateHistoricalData(historicalData, input.current, now)
  /\ profile' = analyzeDemand(historicalData', input.current, now)
  /\ appended' = appended (+) SeqToBag(input.current)
  /\ lastCall' = [op |-> "analyze", by |-> 0, data |-> input.current, at |-> now,
                  beforeLen |-> Len(historicalData)]
  /\ UNCHANGED <<now, hook, pureVars, extVars>>

NextDemandInput ==
  \/ Tick
  \/ CallAnalyzeInput

SpecDemandInput == InitDemandInput /\ [][NextDemandInput]_vars

\* batches around the 24 readings a prediction needs: one reading per hour
\* up to the start, all of value 1 but the k-th
Series(n, k, high) ==
  [i \in 1..n |-> [timestamp |-> StartNow - n + i,
                   value |-> IF i = k THEN high ELSE 1]]

SeriesInputs ==
  {Series(n, k, high) :
     n \in (MIN_PREDICTION_READINGS - 1)..(MIN_PREDICTION_READINGS + 1),
     k \in 1..(MIN_PREDICTION_READINGS + 1),
     high \in Values}

InitSeries ==
  /\ now = StartNow
  /\ historicalData = <<>>
  /\ profile = NoProfile
  /\ lastCall = NoCall
  /\ appended = EmptyBag
  /\ hook = [c \in Callers |-> [pc |-> "mounted", hasProfile |-> FALSE]]
  /\ input \in [current : SeriesInputs, previous : {<<>>}]
  /\ costRuns = <<>>
  /\ sustRuns = <<>>
  /\ InitExt

\* demandAnalyzer.analyzeDemand(input.current), once
CallAnalyzeSeries ==
  /\ lastCall.op = "none"
  /\ historicalData' = updateHistoricalData(historicalData, input.current, now)
  /\ profile' = analyzeDemand(historicalData', input.current, now)
  /\ appended' = appended (+) SeqToBag(input.current)
  /\ lastCall' = [op |-> "analyze", by |-> 0, data |-> input.current, at |-> now,
                  beforeLen |-> Len(historicalData)]
  /\ UNCHANGED <<now, hook, pureVars, extVars>>

NextSeries ==
  \/ Tick
  \/ CallAnalyzeSeries

SpecSeries == InitSeries /\ [][NextSeries]_vars

\* the analyzer driven by the mounted hooks only
NextHook ==
  \/ Tick
  \/ \E c \in Callers : StartUpdateProfile(c)
  \/ \E c \in Callers : FinishUpdateProfile(c)

SpecHook == Init /\ [][NextHook]_vars

\* =========================================================== cost analyzer
\* faulty variant of isPeakHour: 17:00 left out of the peak period
isPeakHour_exclusiveEnd(hour) == hour >= PEAK_START /\ hour < PEAK_END

isPeakHour(hour) == hour >= PEAK_START /\ hour <= PEAK_END

\* hours of the day (first day of the epoch) at which cost readings are taken
CostTimestamps == {6, 10}

\* a high reading at either hour, and a reading of no usage at the peak hour
CostReadings ==
  {r \in [timestamp : CostTimestamps, value : {0, MaxValue}] :
     r.value > 0 \/ isPeakHour(r.timestamp % HoursPerDay)}

\* the previous period's readings: a high reading at either hour
PrevReadings == [timestamp : CostTimestamps, value : {MaxValue}]

CostBatches == UNION {[1..n -> CostReadings] : n \in 0..MaxBatch}

PrevBatches == UNION {[1..n -> PrevReadings] : n \in 0..MaxPrev}

UUIDs == 1..MaxUuid

RECURSIVE SumValues(_)
SumValues(data) ==
  IF data = <<>> THEN 0 ELSE data[1].value + SumValues(Tail(data))

PeakReadings(data) ==
  SelectSeq(data, LAMBDA r : isPeakHour(getHours(r.timestamp)))

OffPeakReadings(data) ==
  SelectSeq(data, LAMBDA r : ~isPeakHour(getHours(r.timestamp)))

\* faulty variant of calculateBreakdown: the fixed charge left out of the
\* taxed subtotal
calculateBreakdown_taxUsageOnly(data, id, t) ==
  LET peakCost == Fin(SumValues(PeakReadings(data)) * PEAK_RATE_CENTS, 100)
      offPeakCost == Fin(SumValues(OffPeakReadings(data)) * OFF_PEAK_RATE_CENTS, 100)
      peakDemand == MaxOf({0} \cup {PeakReadings(data)[i].value :
                                      i \in 1..Len(PeakReadings(data))})
      demandCharges == Num(peakDemand * DEMAND_CHARGE_RATE)
      subtotal == JsAdd(JsAdd(peakCost, offPeakCost), demandCharges)
  IN  [id |-> id, energy_data_id |-> "",
       peak_cost |-> peakCost, off_peak_cost |-> offPeakCost,
       demand_charges |-> demandCharges, fixed_charges |-> Num(FIXED_CHARGE),
       taxes |-> JsMul(subtotal, Fin(TAX_RATE_PERCENT, 100)),
       other_charges |-> Num(0), created_at |-> t]

calculateBreakdown(data, id, t) ==
  LET peakCost == Fin(SumValues(PeakReadings(data)) * PEAK_RATE_CENTS, 100)
      offPeakCost == Fin(SumValues(OffPeakReadings(data)) * OFF_PEAK_RATE_CENTS, 100)
      peakDemand == MaxOf({0} \cup {PeakReadings(data)[i].value :
                                      i \in 1..Len(PeakReadings(data))})
      demandCharges == Num(peakDemand * DEMAND_CHARGE_RATE)
      subtotal == JsAdd(JsAdd(JsAdd(peakCost, offPeakCost), demandCharges),
                        Num(FIXED_CHARGE))
  IN  [id |-> id, energy_data_id |-> "",
       peak_cost |-> peakCost, off_peak_cost |-> offPeakCost,
       demand_charges |-> demandCharges, fixed_charges |-> Num(FIXED_CHARGE),
       taxes |-> JsMul(subtotal, Fin(TAX_RATE_PERCENT, 100)),
       other_charges |-> Num(0), created_at |-> t]

calculateMetrics(breakdown, totalKwh, peakKwh) ==
  [averageCostPerKwh |->
     JsDiv(JsAdd(breakdown.peak_cost, breakdown.off_peak_cost), Num(totalKwh)),
   peakCostPerKwh |-> JsDiv(breakdown.peak_cost, Num(peakKwh)),
   offPeakCostPerKwh |-> JsDiv(breakdown.off_peak_cost, Num(totalKwh - peakKwh)),
   demandCostPerKw |->
     JsDiv(breakdown.demand_charges, JsDiv(Num(peakKwh), Fin(PEAK_RATE_CENTS, 100)))]

percentageChange(current, previous) ==
  JsMul(JsDiv(JsSub(current, previous), previous), Num(100))

calculateComparison(currentData, previousData, id, t) ==
  LET currentBreakdown == calculateBreakdown(currentData, id, t)
      previousBreakdown == calculateBreakdown(previousData, id, t)
      currentTotal == JsAdd(currentBreakdown.peak_cost, currentBreakdown.off_peak_cost)
      previousTotal == JsAdd(previousBreakdown.peak_cost, previousBreakdown.off_peak_cost)
      currentAvg == JsDiv(currentTotal, Num(Len(currentData)))
      previousAvg == JsDiv(previousTotal, Num(Len(previousData)))
  IN  [currentPeriod |->
         [totalCost |-> currentTotal, averageCost |-> currentAvg,
          peakCosts |-> currentBreakdown.peak_cost,
          offPeakCosts |-> currentBreakdown.off_peak_cost],
       previousPeriod |->
         [totalCost |-> previousTotal, averageCost |-> previousAvg,
          peakCosts |-> previousBreakdown.peak_cost,
          offPeakCosts |-> previousBreakdown.off_peak_cost],
       percentageChange |->
         [totalCost |-> percentageChange(currentTotal, previousTotal),
          averageCost |-> percentageChange(currentAvg, previousAvg),
          peakCosts |-> percentageChange(currentBreakdown.peak_cost,
                                         previousBreakdown.peak_cost),
          offPeakCosts |-> percentageChange(currentBreakdown.off_peak_cost,
                                            previousBreakdown.off_peak_cost)]]

\* reading.value * (isPeakHour(hour) ? PEAK_RATE : OFF_PEAK_RATE)
readingCost(r) ==
  Fin(r.value * (IF isPeakHour(getHours(r.timestamp))
                 THEN PEAK_RATE_CENTS ELSE OFF_PEAK_RATE_CENTS), 100)

RECURSIVE SumCosts(_)
SumCosts(data) ==
  IF data = <<>> THEN Num(0) ELSE JsAdd(SumCosts(SubSeq(data, 1, Len(data) - 1)),
                                         readingCost(data[Len(data)]))

Hours == 0..(HoursPerDay - 1)

Weekdays == 0..(DAYS_PER_WEEK - 1)

\* hourlyAverages after the forEach of generateForecast: new Array(24).fill(o)
\* stores the one object o in all 24 slots, so the update made through
\* hourlyAverages[hour] for any hour lands in that one object
hourlyAverages(data) ==
  LET shared == [sum |-> SumCosts(data), count |-> Len(data)]
  IN  [hour \in Hours |-> shared]

\* the 24 forecasts, the one for hour h at index h + 1
generateForecast(data, t) ==
  [i \in 1..HoursPerDay |->
     LET hour == i - 1
         avg == hourlyAverages(data)[hour]
         baselineCost == IF avg.count > 0 THEN JsDiv(avg.sum, Num(avg.count))
                         ELSE Num(0)
         variance == JsMul(baselineCost, Fin(FORECAST_BAND_PERCENT, 100))
     IN  [date |-> startOfDay(t) + hour,
          predictedCost |-> baselineCost,
          confidenceInterval |->
            [lower |-> JsMax(Num(0), JsSub(baselineCost, variance)),
             upper |-> JsAdd(baselineCost, variance)]]]

\* Date.getDay(), the host running on UTC: 0 is Sunday, and the first day of
\* the epoch is a Thursday
getDay(ts) == ((ts \div HoursPerDay) + EPOCH_WEEKDAY) % DAYS_PER_WEEK

\* faulty variant of generateTimeOfUseCosts: the weekday left out of the filter
generateTimeOfUseCosts_anyWeekday(data) ==
  [k \in 1..(DAYS_PER_WEEK * HoursPerDay) |->
     LET weekday == (k - 1) \div HoursPerDay
         hour == (k - 1) % HoursPerDay
         relevantData == SelectSeq(data, LAMBDA r : getHours(r.timestamp) = hour)
         avgUsage == JsDiv(Num(SumValues(relevantData)),
                           Num(IF Len(relevantData) = 0 THEN 1 ELSE Len(relevantData)))
     IN  [hour |-> hour, weekday |-> weekday,
          cost |-> JsMul(avgUsage, Fin(IF isPeakHour(hour) THEN PEAK_RATE_CENTS
                                       ELSE OFF_PEAK_RATE_CENTS, 100))]]

\* the entries in the order of the nested loops: weekday outer, hour inner
generateTimeOfUseCosts(data) ==
  [k \in 1..(DAYS_PER_WEEK * HoursPerDay) |->
     LET weekday == (k - 1) \div HoursPerDay
         hour == (k - 1) % HoursPerDay
         relevantData == SelectSeq(data, LAMBDA r :
                           getDay(r.timestamp) = weekday /\ getHours(r.timestamp) = hour)
         avgUsage == JsDiv(Num(SumValues(relevantData)),
                           Num(IF Len(relevantData) = 0 THEN 1 ELSE Len(relevantData)))
     IN  [hour |-> hour, weekday |-> weekday,
          cost |-> JsMul(avgUsage, Fin(IF isPeakHour(hour) THEN PEAK_RATE_CENTS
                                       ELSE OFF_PEAK_RATE_CENTS, 100))]]

\* Math.pow(x, 2)
JsSquare(x) == JsMul(x, x)

RECURSIVE SumSquaredDeviations(_, _)
SumSquaredDeviations(data, avgCost) ==
  IF data = <<>> THEN Num(0)
  ELSE JsAdd(SumSquaredDeviations(SubSeq(data, 1, Len(data) - 1), avgCost),
             JsSquare(JsSub(readingCost(data[Len(data)]), avgCost)))

\* A deviation |cost - avgCost| / stdDev is carried as its square, which is
\* rational where Math.sqrt is not: deviation > c, for c >= 0, is
\* deviationSquared > c * c, and both are NaN for stdDev 0.
\* faulty variant of severity: the thresholds inclusive
severity_inclusive(deviationSquared) ==
  IF ~JsLt(deviationSquared, Num(HIGH_DEVIATION * HIGH_DEVIATION))
    THEN "high"
  ELSE IF ~JsLt(deviationSquared, Num(MEDIUM_DEVIATION * MEDIUM_DEVIATION))
    THEN "medium"
  ELSE "low"

severity(deviationSquared) ==
  IF JsGt(deviationSquared, Num(HIGH_DEVIATION * HIGH_DEVIATION)) THEN "high"
  ELSE IF JsGt(deviationSquared, Num(MEDIUM_DEVIATION * MEDIUM_DEVIATION))
    THEN "medium"
  ELSE "low"

determineRootCause(hour, dayOfWeek, deviationSquared) ==
  IF isPeakHour(hour)
     /\ JsGt(deviationSquared, Num(HIGH_DEVIATION * HIGH_DEVIATION))
    THEN "Significant peak hour usage spike"
  ELSE IF dayOfWeek = 0 \/ dayOfWeek = 6 THEN "Unusual weekend activity"
  ELSE IF hour >= 22 \/ hour <= 5 THEN "Unexpected nighttime consumption"
  ELSE "Normal operational variation"

\* one CostAnomaly per reading, in the order of the readings; confidence
\* (which needs the deviation itself) and the season are left out
detectAnomalies(data) ==
  LET avgCost == JsDiv(SumCosts(data), Num(Len(data)))
      variance == JsDiv(SumSquaredDeviations(data, avgCost), Num(Len(data)))
  IN  [i \in 1..Len(data) |->
         LET cost == readingCost(data[i])
             deviationSquared == JsDiv(JsSquare(JsSub(cost, avgCost)), variance)
             hour == getHours(data[i].timestamp)
             dayOfWeek == getDay(data[i].timestamp)
         IN  [date |-> data[i].timestamp,
              actualCost |-> cost,
              expectedCost |-> avgCost,
              deviationSquared |-> deviationSquared,
              severity |-> severity(deviationSquared),
              impact |->
                [cost |-> JsAbs(JsSub(cost, avgCost)),
                 efficiency |->
                   IF JsGt(deviationSquared,
                           Num(MEDIUM_DEVIATION * MEDIUM_DEVIATION))
                   THEN Fin(8, 10) ELSE Fin(4, 10)],
              context |-> [timeOfDay |-> hour, dayOfWeek |-> dayOfWeek],
              rootCause |-> determineRootCause(hour, dayOfWeek, deviationSquared)]]

RECURSIVE SumPeakCellsIn(_, _, _)
\* the sum of the costs of the peak-hour entries among timeOfUse[from..to]
\* (the sums in this model are exact, so the order of the additions is free)
SumPeakCellsIn(timeOfUse, from, to) ==
  IF from > to THEN Num(0)
  ELSE IF from = to
    THEN (IF isPeakHour(timeOfUse[from].hour) THEN timeOfUse[from].cost ELSE Num(0))
  ELSE LET middle == (from + to) \div 2
       IN  JsAdd(SumPeakCellsIn(timeOfUse, from, middle),
                 SumPeakCellsIn(timeOfUse, middle + 1, to))

\* timeOfUse.filter(tou => isPeakHour(tou.hour)).reduce((sum, tou) => sum + tou.cost, 0)
SumPeakCells(timeOfUse) == SumPeakCellsIn(timeOfUse, 1, Len(timeOfUse))

\* the opportunities in the order they are pushed; ids, texts, steps and the
\* constant mlInsights of an opportunity are left out
generateSavingOpportunities(breakdown, timeOfUse) ==
  LET totalCost == JsAdd(breakdown.peak_cost, breakdown.off_peak_cost)
      avgPeakCost == JsDiv(SumPeakCells(timeOfUse), Num(PEAK_HOURS_DIVISOR))
      peakReduction ==
        IF JsGt(breakdown.peak_cost, JsMul(breakdown.off_peak_cost, Fin(15, 10)))
        THEN <<[category |-> "peak-reduction", priority |-> "high",
                potentialSavings |-> JsMul(breakdown.peak_cost, Fin(2, 10)),
                implementationCost |-> 5000, paybackPeriod |-> 12]>>
        ELSE <<>>
      rateOptimization ==
        IF JsGt(avgPeakCost, JsMul(Fin(PEAK_RATE_CENTS, 100), Fin(12, 10)))
        THEN <<[category |-> "rate-optimization", priority |-> "medium",
                potentialSavings |-> JsMul(totalCost, Fin(15, 100)),
                implementationCost |-> 2000, paybackPeriod |-> 6]>>
        ELSE <<>>
      demandResponse ==
        IF JsGt(breakdown.demand_charges, JsMul(totalCost, Fin(3, 10)))
        THEN <<[category |-> "demand-response", priority |-> "high",
                potentialSavings |-> JsMul(breakdown.demand_charges, Fin(25, 100)),
                implementationCost |-> 10000, paybackPeriod |-> 18]>>
        ELSE <<>>
  IN  peakReduction \o rateOptimization \o demandResponse

\* one entry of a usage pattern, from the {sum, count} object of its bucket
patternEntry(pattern, fullConfidenceCount) ==
  [avgUsage |-> IF pattern.count > 0
                  THEN JsDiv(Num(pattern.sum), Num(pattern.count)) ELSE Num(0),
   confidence |-> JsMin(Num(1), Fin(pattern.count, fullConfidenceCount))]

\* usagePatterns of generateMLInsights(data).  new Array(n).fill({sum: 0,
\* count: 0}) puts one and the same object into every slot of an array, so
\* the forEach adds every reading to the one object of each array, whatever
\* the reading's hour, weekday or month; the constant costDrivers and
\* optimizationPotential are left out
generateMLInsights(data) ==
  LET pattern == [sum |-> SumValues(data), count |-> Len(data)]
  IN  [usagePatterns |->
         [daily |-> [k \in 1..HoursPerDay |->
                       [hour |-> k - 1,
                        avgUsage |-> patternEntry(pattern, 30).avgUsage,
                        confidence |-> patternEntry(pattern, 30).confidence]],
          weekly |-> [k \in 1..DAYS_PER_WEEK |->
                        [day |-> k - 1,
                         avgUsage |-> patternEntry(pattern, 4).avgUsage,
                         confidence |-> patternEntry(pattern, 4).confidence]],
          seasonal |-> [k \in 1..MONTHS_PER_YEAR |->
                          [month |-> k - 1,
                           avgUsage |-> patternEntry(pattern, 30).avgUsage,
                           confidence |-> patternEntry(pattern, 30).confidence]]]]

\* the report returned by analyzeCosts(currentData, previousData); id is the
\* outcome of crypto.randomUUID() and t the host clock
analyzeCosts(currentData, previousData, id, t) ==
  LET totalKwh == SumValues(currentData)
      peakKwh == SumValues(PeakReadings(currentData))
      breakdown == calculateBreakdown(currentData, id, t)
      timeOfUse == generateTimeOfUseCosts(currentData)
  IN  [breakdown |-> breakdown,
       metrics |-> calculateMetrics(breakdown, totalKwh, peakKwh),
       comparison |-> calculateComparison(currentData,
                        IF Len(previousData) > 0 THEN previousData ELSE currentData,
                        id, t),
       anomalies |-> detectAnomalies(currentData),
       forecast |-> generateForecast(currentData, t),
       timeOfUse |-> timeOfUse,
       savingOpportunities |-> generateSavingOpportunities(breakdown, timeOfUse),
       mlInsights |-> generateMLInsights(currentData),
       isLoading |-> FALSE, isError |-> FALSE]

InitCost ==
  /\ now = StartNow
  /\ historicalData = <<>>
  /\ profile = NoProfile
  /\ lastCall = NoCall
  /\ appended = EmptyBag
  /\ hook = [c \in Callers |-> [pc |-> "mounted", hasProfile |-> FALSE]]
  /\ input \in [current : CostBatches, previous : PrevBatches]
  /\ costRuns = <<>>
  /\ sustRuns = <<>>
  /\ InitExt

\* costAnalyzer.analyzeCosts(input.current, input.previous)
CallAnalyzeCosts ==
  \E id \in UUIDs :
    /\ costRuns' = <<analyzeCosts(input.current, input.previous, id, now)>>
    /\ UNCHANGED <<now, demandVars, extVars, input, sustRuns>>

NextCost ==
  \/ Tick
  \/ CallAnalyzeCosts

SpecCost == InitCost /\ [][NextCost]_vars

\* readings spread over the week: a low reading at 08:00 and at 09:00 and a
\* high one at 17:00 and at 18:00 of the first day (both ends of the peak
\* period), a low one at 09:00 of the second day and a high one at 09:00 a
\* week after the first
WeekReadings ==
  {[timestamp |-> 8, value |-> 1],
   [timestamp |-> 9, value |-> 1],
   [timestamp |-> 17, value |-> MaxValue],
   [timestamp |-> 18, value |-> MaxValue],
   [timestamp |-> HoursPerDay + 9, value |-> 1],
   [timestamp |-> DAYS_PER_WEEK * HoursPerDay + 9, value |-> MaxValue]}

WeekBatches == UNION {[1..n -> WeekReadings] : n \in 0..MaxBatch}

InitCostWeek ==
  /\ now = StartNow
  /\ historicalData = <<>>
  /\ profile = NoProfile
  /\ lastCall = NoCall
  /\ appended = EmptyBag
  /\ hook = [c \in Callers |-> [pc |-> "mounted", hasProfile |-> FALSE]]
  /\ input \in [current : WeekBatches, previous : {<<>>}]
  /\ costRuns = <<>>
  /\ sustRuns = <<>>
  /\ InitExt

SpecCostWeek == InitCostWeek /\ [][NextCost]_vars

\* readings of one peak hour, low or high, for the anomaly detection
AnomalyReadings == [timestamp : {10}, value : Values]

AnomalyBatches == UNION {[1..n -> AnomalyReadings] : n \in 0..MaxAnomalyBatch}

InitCostAnomaly ==
  /\ now = StartNow
  /\ historicalData = <<>>
  /\ profile = NoProfile
  /\ lastCall = NoCall
  /\ appended = EmptyBag
  /\ hook = [c \in Callers |-> [pc |-> "mounted", hasProfile |-> FALSE]]
  /\ input \in [current : AnomalyBatches, previous : {<<>>}]
  /\ costRuns = <<>>
  /\ sustRuns = <<>>
  /\ InitExt

SpecCostAnomaly == InitCostAnomaly /\ [][NextCost]_vars

\* readings before and inside the peak hours of a Thursday, of three sizes:
\* at the peak rate a reading of 12 costs 1.80 and one of 76 costs 11.40,
\* which lie on either side of 63 * 0.18 = 11.34 and both above 9 * 0.18
LoadValues == {1, 12, 76}

LoadReadings == [timestamp : CostTimestamps, value : LoadValues]

LoadBatches == UNION {[1..n -> LoadReadings] : n \in 0..MaxBatch}

InitCostLoad ==
  /\ now = StartNow
  /\ historicalData = <<>>
  /\ profile = NoProfile
  /\ lastCall = NoCall
  /\ appended = EmptyBag
  /\ hook = [c \in Callers |-> [pc |-> "mounted", hasProfile |-> FALSE]]
  /\ input \in [current : LoadBatches, previous : {<<>>}]
  /\ costRuns = <<>>
  /\ sustRuns = <<>>
  /\ InitExt

SpecCostLoad == InitCostLoad /\ [][NextCost]_vars

\* ================================================= sustainability analyzer
RandomSeeds == 0..MaxSeed

\* the outputs of the two most recent calls
KeepLastTwo(runs) ==
  IF Len(runs) > 2 THEN SubSeq(runs, Len(runs) - 1, Len(runs)) ELSE runs

\* the i-th outcome of Math.random() in a call whose generator state is seed
Random(seed, i) == Fin((seed + i) % 2, 2)

calculateCarbonFootprint(data, seed, t) ==
  LET totalUsage == SumValues(data)
      emissions == Fin(totalUsage * EMISSION_FACTOR_TENTHS, 10)
      perKwh == JsDiv(emissions, Num(totalUsage))
      baseline == Fin(BASELINE_EMISSIONS_TENTHS, 10)
  IN  [totalEmissions |-> emissions,
       emissionsPerKwh |-> perKwh,
       carbonIntensity |-> JsMul(perKwh, Num(1000)),
       reductionFromBaseline |->
         JsMul(JsDiv(JsSub(baseline, perKwh), baseline), Num(100)),
       sources |->
         <<[source |-> "Grid Power", emissions |-> JsMul(emissions, Fin(6, 10)),
            percentage |-> 60, trend |-> "decreasing"],
           [source |-> "On-site Generation", emissions |-> JsMul(emissions, Fin(3, 10)),
            percentage |-> 30, trend |-> "stable"],
           [source |-> "Backup Systems", emissions |-> JsMul(emissions, Fin(1, 10)),
            percentage |-> 10, trend |-> "increasing"]>>,
       forecast |->
         [i \in 0..(FORECAST_HOURS - 1) |->
            [timestamp |-> t + i,
             predictedEmissions |->
               JsMul(JsDiv(emissions, Num(FORECAST_HOURS)),
                     JsSub(JsAdd(Num(1), JsMul(Random(seed, i), Fin(2, 10))),
                           Fin(1, 10))),
             confidence |-> Fin(90 - 2 * i, 100)]]]

\* every fourth reading, at most five of them
identifyPeakRenewableHours(data) ==
  LET picked == {i \in 1..Len(data) : (i - 1) % 4 = 0 /\ (i - 1) \div 4 < 5}
  IN  [k \in 1..Cardinality(picked) |-> data[4 * (k - 1) + 1].timestamp]

\* the generation, potential and savings tables are left out
calculateRenewableMetrics(data) ==
  LET totalUsage == Num(SumValues(data))
      solarContribution == JsMul(totalUsage, Fin(SOLAR_SHARE_PERCENT, 100))
      windContribution == JsMul(totalUsage, Fin(WIND_SHARE_PERCENT, 100))
  IN  [percentage |->
         JsMul(JsDiv(JsAdd(solarContribution, windContribution), totalUsage),
               Num(100)),
       solarContribution |-> solarContribution,
       windContribution |-> windContribution,
       gridUsage |-> JsSub(totalUsage, JsAdd(solarContribution, windContribution)),
       peakRenewableHours |-> identifyPeakRenewableHours(data)]

\* the reduce never calls back for an empty array and returns its initial 0
RECURSIVE calculateWasteEnergy(_, _)
calculateWasteEnergy(data, avgUsage) ==
  IF data = <<>> THEN Num(0)
  ELSE LET expectedUsage == JsMul(avgUsage, Fin(11, 10))
       IN  JsAdd(calculateWasteEnergy(SubSeq(data, 1, Len(data) - 1), avgUsage),
                 JsMax(Num(0), JsSub(Num(data[Len(data)].value), expectedUsage)))

\* the equipment and optimization tables are left out
calculateEfficiencyMetrics(data) ==
  LET totalUsage == Num(SumValues(data))
      avgUsage == JsDiv(totalUsage, Num(Len(data)))
  IN  [energyPerSquareFoot |-> JsDiv(totalUsage, Num(SQUARE_FOOTAGE)),
       peakEfficiency |-> Num(PEAK_EFFICIENCY),
       offPeakEfficiency |-> Num(OFF_PEAK_EFFICIENCY),
       wasteEnergy |-> calculateWasteEnergy(data, avgUsage)]

calculateTrend(currentScore) ==
  IF JsGt(currentScore, Num(INDUSTRY_BENCHMARK + 5)) THEN "improving"
  ELSE IF JsLt(currentScore, Num(INDUSTRY_BENCHMARK - 5)) THEN "declining"
  ELSE "stable"

\* faulty variant of generateSustainabilityRecommendations: a recommendation
\* emitted unless its score is at or above the threshold, so for NaN too
generateSustainabilityRecommendations_unlessAtLeast(scores) ==
  (IF ~JsLe(Num(CARBON_SCORE_THRESHOLD), scores.carbonScore)
   THEN <<[category |-> "carbon", priority |-> "high"]>> ELSE <<>>)
  \o (IF ~JsLe(Num(RENEWABLE_SCORE_THRESHOLD), scores.renewableScore)
      THEN <<[category |-> "renewable", priority |-> "medium"]>> ELSE <<>>)

\* of a recommendation the category and the priority are kept
generateSustainabilityRecommendations(scores) ==
  (IF JsLt(scores.carbonScore, Num(CARBON_SCORE_THRESHOLD))
   THEN <<[category |-> "carbon", priority |-> "high"]>> ELSE <<>>)
  \o (IF JsLt(scores.renewableScore, Num(RENEWABLE_SCORE_THRESHOLD))
      THEN <<[category |-> "renewable", priority |-> "medium"]>> ELSE <<>>)

\* seed is the state of Math.random() on entry to analyzeSustainability; the
\* 24 draws of the emission forecast come first; the month stamps of the
\* progress and forecast entries are left out
calculateSustainabilityScore(carbon, renewable, efficiency, seed) ==
  LET carbonScore ==
        JsMin(Num(100),
              JsMul(JsSub(Num(1), JsDiv(carbon.emissionsPerKwh,
                                        Fin(BASELINE_EMISSIONS_TENTHS, 10))),
                    Num(100)))
      renewableScore == renewable.percentage
      efficiencyScore ==
        JsDiv(JsAdd(efficiency.peakEfficiency, efficiency.offPeakEfficiency), Num(2))
      wasteScore ==
        JsMax(Num(0), JsSub(Num(100), JsDiv(efficiency.wasteEnergy, Num(10))))
      overall ==
        JsRound(JsAdd(JsAdd(JsAdd(JsMul(carbonScore, Fin(CARBON_WEIGHT_TENTHS, 10)),
                                  JsMul(renewableScore, Fin(RENEWABLE_WEIGHT_TENTHS, 10))),
                            JsMul(efficiencyScore, Fin(EFFICIENCY_WEIGHT_TENTHS, 10))),
                      JsMul(wasteScore, Fin(WASTE_WEIGHT_TENTHS, 10))))
      scores == [carbonScore |-> carbonScore, renewableScore |-> renewableScore,
                 efficiencyScore |-> efficiencyScore, wasteScore |-> wasteScore]
  IN  [overall |-> overall,
       components |-> scores,
       industryComparison |->
         JsMul(JsDiv(JsSub(overall, Num(INDUSTRY_BENCHMARK)), Num(INDUSTRY_BENCHMARK)),
               Num(100)),
       trend |-> calculateTrend(overall),
       recommendations |-> generateSustainabilityRecommendations(scores),
       historicalProgress |->
         [i \in 0..(SCORE_MONTHS - 1) |->
            [score |->
               JsMax(Num(50),
                     JsSub(overall,
                           JsMul(Num(i),
                                 JsSub(JsMul(Random(seed, FORECAST_HOURS + i), Num(2)),
                                       Num(1)))))]],
       forecast |->
         [i \in 0..(SCORE_MONTHS - 1) |->
            [predictedScore |->
               JsMin(Num(100),
                     JsAdd(overall,
                           JsMul(Num(i),
                                 JsMul(Random(seed, FORECAST_HOURS + SCORE_MONTHS + i),
                                       Num(2))))),
             confidence |-> Fin(90 - 5 * i, 100)]]]

\* the metrics returned by analyzeSustainability(data); mlInsights is left out
analyzeSustainability(data, seed, t) ==
  LET carbonFootprint == calculateCarbonFootprint(data, seed, t)
      renewableEnergy == calculateRenewableMetrics(data)
      efficiency == calculateEfficiencyMetrics(data)
  IN  [carbonFootprint |-> carbonFootprint,
       renewableEnergy |-> renewableEnergy,
       efficiency |-> efficiency,
       sustainabilityScore |->
         calculateSustainabilityScore(carbonFootprint, renewableEnergy,
                                      efficiency, seed)]

InitSust ==
  /\ now = StartNow
  /\ historicalData = <<>>
  /\ profile = NoProfile
  /\ lastCall = NoCall
  /\ appended = EmptyBag
  /\ hook = [c \in Callers |-> [pc |-> "mounted", hasProfile |-> FALSE]]
  /\ input \in [current : CostBatches, previous : {<<>>}]
  /\ costRuns = <<>>
  /\ sustRuns = <<>>
  /\ InitExt

\* sustainabilityAnalyzer.analyzeSustainability(input.current)
CallAnalyzeSustainability ==
  \E seed \in RandomSeeds :
    /\ sustRuns' = KeepLastTwo(Append(sustRuns,
                      analyzeSustainability(input.current, seed, now)))
    /\ UNCHANGED <<now, demandVars, extVars, input, costRuns>>

NextSust ==
  \/ Tick
  \/ CallAnalyzeSustainability

SpecSust == InitSust /\ [][NextSust]_vars

\* =========================================================== bill analyzer
\* getCachedMLResult(key): the cached result while it is younger than the
\* TTL, otherwise null
getCachedMLResult(mlCache, key, t) ==
  IF mlCache[key].cached /\ t - mlCache[key].timestamp < ML_CACHE_TTL_HOURS
    THEN mlCache[key].result
    ELSE NoOutcome

\* setCachedMLResult(key, result)
setCachedMLResult(mlCache, key, result, t) ==
  [mlCache EXCEPT ![key] = [cached |-> TRUE, result |-> result, timestamp |-> t]]

BillRoom == bill.started < MaxBillCalls

\* billAnalyzer.analyze(breakdown, usageData), up to the await in
\* performBillAnalysis: a cache hit resolves at once; building the prompt
\* from no readings throws in calculateTrend (reduce of an empty array
\* without an initial value), which rejects the promise; otherwise the
\* request is sent
StartAnalyze(c) ==
  \E created_at \in CreatedAts, usageData \in BillUsages :
    LET cached == getCachedMLResult(bill.mlCache, created_at, now)
        call == [pc |-> "settled", created_at |-> created_at,
                 usageData |-> usageData, reply |-> "none", outcome |-> NoOutcome]
    IN  /\ BillRoom
        /\ bill.calls[c].pc # "awaiting"
        /\ bill' = [bill EXCEPT
             !.started = @ + 1,
             !.calls[c] =
               IF cached # NoOutcome
                 THEN [call EXCEPT !.outcome = [kind |-> "resolved", result |-> cached]]
               ELSE IF usageData = <<>>
                 THEN [call EXCEPT !.outcome = [kind |-> "rejected", error |-> "TypeError"]]
               ELSE [call EXCEPT !.pc = "awaiting"]]
        /\ UNCHANGED <<now, demandVars, pureVars, rt>>

\* performBillAnalysis after the await: the await sits before the try, so a
\* rejected request rejects analyze; JSON.parse is inside the try
afterReply(call, reply) ==
  CASE reply = "json" ->
         [kind |-> "resolved", result |-> ParsedResult(call.created_at, call.usageData)]
    [] reply = "unparsable" ->
         [kind |-> "resolved", result |-> ErrorResult("SyntaxError")]
    [] reply = "rejects" ->
         [kind |-> "rejected", error |-> "API Error"]

\* claudeClient.analyzeBill settles and performBillAnalysis runs to its end;
\* only a result that parsed is cached
FinishAnalyze(c) ==
  \E reply \in ClientOutcomes :
    LET call == bill.calls[c]
        outcome == afterReply(call, reply)
    IN  /\ call.pc = "awaiting"
        /\ bill' = [bill EXCEPT
             !.calls[c] = [call EXCEPT !.pc = "settled", !.reply = reply,
                                       !.outcome = outcome],
             !.mlCache = IF reply = "json"
                           THEN setCachedMLResult(@, call.created_at,
                                                  outcome.result, now)
                           ELSE @]
        /\ UNCHANGED <<now, demandVars, pureVars, rt>>

NextBill ==
  \/ Tick
  \/ \E c \in Callers : StartAnalyze(c)
  \/ \E c \in Callers : FinishAnalyze(c)

SpecBill == Init /\ [][NextBill]_vars

\* ====================================================== useRealtimeUpdates
Dues(r) ==
  ({r.intervalDue, r.cleanupDue} \ {NoTimer}) \cup {t.due : t \in BagToSet(r.timers)}

WithinBounds(r) ==
  r.fromCalls <= MaxFromCalls /\ BagCardinality(r.sockets) <= MaxSockets

Step(r) ==
  /\ WithinBounds(r)
  /\ rt' = r
  /\ UNCHANGED <<now, demandVars, pureVars, bill>>

\* time passes until the next timer is due
Advance ==
  /\ Dues(rt) # {}
  /\ \A d \in Dues(rt) : d > rt.clock
  /\ LET next == CHOOSE d \in Dues(rt) : \A e \in Dues(rt) : d <= e
     IN  /\ next <= MaxClock
         /\ Step([rt EXCEPT !.clock = next])

\* setInterval(fetchLatestData, interval * 1000) fires
FireInterval ==
  /\ rt.intervalDue = rt.clock
  /\ Step(fetchLatestData([rt EXCEPT !.intervalDue = @ + INTERVAL,
                                     !.intervalsFired = @ + 1],
                          closureOf(rt)))

\* the cache clean-up interval fires (armed after the fetch interval)
FireCacheCleanup ==
  /\ rt.cleanupDue = rt.clock
  /\ rt.intervalDue # rt.clock
  /\ Step([rt EXCEPT !.cleanupDue = @ + CACHE_CLEANUP_PERIOD,
                     !.cache = IF @ # NoCacheEntry /\ rt.clock - @ > CACHE_TIME
                                 THEN NoCacheEntry ELSE @])

\* a retry armed by setTimeout(fetchLatestData, 1000 * 2 ** retryCount) fires
FireRetry ==
  \E t \in BagToSet(rt.timers) :
    /\ t.due = rt.clock
    /\ Step(fetchLatestData([rt EXCEPT !.timers = @ (-) SetToBag({t}),
                                       !.onlyIntervals = FALSE],
                            t.captured))

\* the query of one fetchLatestData call settles: with a row, with no row,
\* or with an error (queryError, or a rejected promise)
SettleFetch ==
  \E captured \in BagToSet(rt.inflight), result \in {"row", "empty", "error"} :
    LET r == [rt EXCEPT !.inflight = @ (-) SetToBag({captured})]
        after == CASE result = "row" -> processData(r)
                   [] result = "empty" -> r
                   [] result = "error" -> onFetchError(r, captured)
    IN  Step([after EXCEPT !.onlyIntervals = @ /\ result # "error"])

\* the callback given to subscribe() is called with a channel status
ChannelStatus ==
  \E s \in {"SUBSCRIBED", "CLOSED", "CHANNEL_ERROR"} :
    /\ rt.mounted
    /\ rt.channel \in {"joining", "joined"}
    /\ s = "SUBSCRIBED" => rt.channel = "joining"
    /\ LET r == [rt EXCEPT !.onlyIntervals = FALSE]
       IN  Step(CASE s = "SUBSCRIBED" ->
                       setStatus([r EXCEPT !.channel = "joined"], "connected")
                  [] s = "CLOSED" ->
                       setStatus(setupWebsocketFallback(
                                   [r EXCEPT !.channel = "closed"],
                                   closureOf(r)),
                                 "reconnecting")
                  [] s = "CHANNEL_ERROR" ->
                       setStatus(setupWebsocketFallback(
                                   [r EXCEPT !.channel = "errored"],
                                   closureOf(r)),
                                 "error"))

\* ws.onmessage with data that parses
WsMessage ==
  \E s \in OpenSockets(rt) :
    Step(processData([rt EXCEPT !.onlyIntervals = FALSE]))

\* ws.onclose: the close event of a socket, closed by the server or at the
\* end of the handshake that close() started
WsClose ==
  \E s \in BagToSet(rt.sockets) :
    LET r == [rt EXCEPT !.sockets = clearWsRef(@ (-) SetToBag({s})),
                        !.onlyIntervals = FALSE]
    IN  Step(IF s.captured THEN setStatus(r, "reconnecting") ELSE r)

\* ws.onerror: the connection failed; its close event follows
WsError ==
  \E s \in OpenSockets(rt) :
    LET failed == (rt.sockets (-) SetToBag({s}))
                    (+) SetToBag({[s EXCEPT !.state = "closing"]})
    IN  Step(setStatus([rt EXCEPT !.sockets = clearWsRef(failed),
                                  !.onlyIntervals = FALSE],
                       "error"))

\* refresh()
Refresh ==
  /\ rt.mounted
  /\ Step(fetchLatestData([rt EXCEPT !.retryCount = 0,
                                     !.onlyIntervals = FALSE],
                          closureOf(rt)))

\* the component unmounts: the effect's cleanup runs
Unmount ==
  /\ rt.mounted
  /\ Step([cleanupEffect(rt) EXCEPT !.mounted = FALSE, !.onlyIntervals = FALSE])

NextRealtime ==
  \/ Advance
  \/ FireInterval
  \/ FireCacheCleanup
  \/ FireRetry
  \/ SettleFetch
  \/ ChannelStatus
  \/ WsMessage
  \/ WsClose
  \/ WsError
  \/ Refresh
  \/ Unmount

SpecRealtime == Init /\ [][NextRealtime]_vars

\* ================================================= claims: demand analyzer
Occurrences(r, s) == Cardinality({i \in 1..Len(s) : s[i] = r})

SortedAscending(s) ==
  \A i, j \in 1..Len(s) : i < j => s[i].timestamp <= s[j].timestamp

ValuesInWindow(S, t) == {r.value : r \in {x \in S : InWindow(x, t)}}

Range(s) == {s[i] : i \in 1..Len(s)}

\* C1: after any sequence of updateHistoricalData and analyzeDemand calls,
\* every retained reading is no older than 30 days before the time of the
\* most recent call, and the buffer is sorted ascending by timestamp.
C1_WindowAndSorted ==
  /\ \A i \in 1..Len(historicalData) :
       historicalData[i].timestamp >= lastCall.at - WINDOW_DAYS * HoursPerDay
  /\ SortedAscending(historicalData)

\* a call that dropped a stale reading of its batch and placed a fresh one
\* in front of a reading retained from an earlier call
C1_Witness ==
  /\ lastCall.op # "none"
  /\ lastCall.beforeLen > 0
  /\ \E r \in Range(lastCall.data) : ~InWindow(r, lastCall.at)
  /\ \E r \in Range(lastCall.data) :
       /\ InWindow(r, lastCall.at)
       /\ Len(historicalData) >= 2
       /\ r = historicalData[1]
       /\ r.timestamp < historicalData[Len(historicalData)].timestamp

C3_NoLostUpdate ==
  /\ \A r \in BagToSet(appended) :
       InWindow(r, lastCall.at) =>
         Occurrences(r, historicalData) = CopiesIn(r, appended)
  /\ \A r \in Range(historicalData) : InWindow(r, lastCall.at)
  /\ SortedAscending(historicalData)

\* caller 2 appended to a non-empty buffer while caller 1, which has
\* appended before, has its next update in flight
C3_Witness ==
  /\ hook[1].hasProfile
  /\ hook[1].pc = "fetching"
  /\ lastCall.by = 2
  /\ lastCall.beforeLen > 0
  /\ Len(historicalData) > lastCall.beforeLen

\* C4: the reset step updateHistoricalData([]) leaves the buffer empty.
C4_ResetEmptiesBuffer ==
  (lastCall.op = "update" /\ lastCall.data = <<>>) => historicalData = <<>>

C6_CurrentIsLatest ==
  lastCall.op = "analyze" =>
    IF lastCall.data = <<>> THEN profile.currentDemand = 0
    ELSE \E r \in Range(lastCall.data) :
           /\ \A x \in Range(lastCall.data) : x.timestamp <= r.timestamp
           /\ profile.currentDemand = r.value

\* ====================================== claims: cost and sustainability
LastRun(runs) == runs[Len(runs)]

\* C7: calling analyzeSustainability (or analyzeCosts) twice with the same
\* input yields identical outputs: no clock or random source influences any
\* field of the result.
C7_SameInputSameOutput ==
  Len(sustRuns) = 2 => sustRuns[1] = sustRuns[2]

\* C8: every ratio of the CostMetrics is 0 when its denominator is 0:
\* peakCostPerKwh when no reading falls in peak hours, offPeakCostPerKwh
\* when every reading falls in peak hours, averageCostPerKwh for an empty
\* reading set.
C8_RatiosGuarded ==
  Len(costRuns) > 0 =>
    LET m == LastRun(costRuns).metrics IN
    /\ PeakReadings(input.current) = <<>> => IsZero(m.peakCostPerKwh)
    /\ OffPeakReadings(input.current) = <<>> => IsZero(m.offPeakCostPerKwh)
    /\ input.current = <<>> => IsZero(m.averageCostPerKwh)

\* C9 (as stated): the breakdown of an empty reading set is all zero:
\* peak_cost, off_peak_cost, demand_charges, fixed_charges, taxes and
\* other_charges are 0.
C9_EmptyAllZero ==
  (Len(costRuns) > 0 /\ input.current = <<>>) =>
    LET b == LastRun(costRuns).breakdown IN
    /\ IsZero(b.peak_cost) /\ IsZero(b.off_peak_cost)
    /\ IsZero(b.demand_charges) /\ IsZero(b.fixed_charges)
    /\ IsZero(b.taxes) /\ IsZero(b.other_charges)

\* C9 (amended): the breakdown of an empty reading set has peak_cost,
\* off_peak_cost, demand_charges and other_charges 0, fixed_charges the
\* constant 50 and taxes 8% of it, 4.
C9_EmptyBreakdown ==
  (Len(costRuns) > 0 /\ input.current = <<>>) =>
    LET b == LastRun(costRuns).breakdown IN
    /\ IsZero(b.peak_cost) /\ IsZero(b.off_peak_cost)
    /\ IsZero(b.demand_charges) /\ IsZero(b.other_charges)
    /\ b.fixed_charges = [k |-> "fin", n |-> 50, d |-> 1]
    /\ b.taxes = [k |-> "fin", n |-> 4, d |-> 1]

\* an analysis of the empty reading set has returned
C9_Witness ==
  /\ Len(costRuns) > 0
  /\ input.current = <<>>
  /\ LastRun(costRuns).breakdown.created_at = now

\* C10: without a previous reading set all four percentage changes are 0
\* for every current reading set, and a percentage change is 0 whenever its
\* previous-period value is 0.
C10_ZeroChange ==
  Len(costRuns) > 0 =>
    LET c == LastRun(costRuns).comparison IN
    /\ input.previous = <<>> =>
         /\ IsZero(c.percentageChange.totalCost)
         /\ IsZero(c.percentageChange.averageCost)
         /\ IsZero(c.percentageChange.peakCosts)
         /\ IsZero(c.percentageChange.offPeakCosts)
    /\ IsZero(c.previousPeriod.totalCost) => IsZero(c.percentageChange.totalCost)
    /\ IsZero(c.previousPeriod.averageCost) => IsZero(c.percentageChange.averageCost)
    /\ IsZero(c.previousPeriod.peakCosts) => IsZero(c.percentageChange.peakCosts)
    /\ IsZero(c.previousPeriod.offPeakCosts) => IsZero(c.percentageChange.offPeakCosts)

ReadingsAtHour(data, h) ==
  SelectSeq(data, LAMBDA r : r.timestamp % 24 = h)

\* C11: generateForecast returns exactly 24 entries; the entry for hour h
\* has predictedCost equal to the average cost of the readings whose hour is
\* h, with a band of 20% below and above it and lower <= predictedCost <=
\* upper; an hour without readings has predictedCost and both bounds 0.
C11_ForecastPerHour ==
  Len(costRuns) > 0 =>
    LET f == LastRun(costRuns).forecast IN
    /\ Len(f) = 24
    /\ \A h \in 0..23 :
         LET rs == ReadingsAtHour(input.current, h)
             rate == IF h >= 9 /\ h <= 17 THEN 15 ELSE 8
             expected == IF rs = <<>> THEN Num(0)
                         ELSE Fin(SumValues(rs) * rate, 100 * Len(rs))
         IN  /\ f[h + 1].predictedCost = expected
             /\ f[h + 1].confidenceInterval.lower = JsMul(expected, Fin(8, 10))
             /\ f[h + 1].confidenceInterval.upper = JsMul(expected, Fin(12, 10))
             /\ JsLe(f[h + 1].confidenceInterval.lower, f[h + 1].predictedCost)
             /\ JsLe(f[h + 1].predictedCost, f[h + 1].confidenceInterval.upper)

TimeOfUseCell(data, w, h) ==
  SelectSeq(data, LAMBDA r : ((r.timestamp \div 24) + 4) % 7 = w /\ r.timestamp % 24 = h)

\* C12: generateTimeOfUseCosts returns exactly 168 entries for any input,
\* the empty array included; each (weekday 0..6, hour 0..23) pair occurs
\* exactly once, and its cost is the average usage of the readings with that
\* weekday and hour times the rate of the hour (0.15 in 9..17, else 0.08),
\* 0 when there is none.
C12_TimeOfUseGrid ==
  Len(costRuns) > 0 =>
    LET tou == LastRun(costRuns).timeOfUse IN
    /\ Len(tou) = 168
    /\ \A w \in 0..6, h \in 0..23 :
         /\ Cardinality({k \in 1..Len(tou) : tou[k].weekday = w /\ tou[k].hour = h}) = 1
         /\ \A k \in 1..Len(tou) :
              (tou[k].weekday = w /\ tou[k].hour = h) =>
                LET rs == TimeOfUseCell(input.current, w, h)
                    rate == IF h >= 9 /\ h <= 17 THEN 15 ELSE 8
                IN  tou[k].cost = IF rs = <<>> THEN Num(0)
                                  ELSE Fin(SumValues(rs) * rate, 100 * Len(rs))

\* a grid with one cell averaging two different readings taken a week apart
\* and another cell, of another weekday, holding a reading of its own
C12_Witness ==
  /\ Len(costRuns) > 0
  /\ Len(input.current) >= 2
  /\ \E i, j \in 1..Len(input.current) :
       /\ input.current[i].timestamp + 168 = input.current[j].timestamp
       /\ input.current[i].value # input.current[j].value
  /\ \E k \in 1..Len(LastRun(costRuns).timeOfUse) :
       LastRun(costRuns).timeOfUse[k].cost =
         Fin((input.current[1].value + input.current[2].value) * 15, 200)

InPeakHours(data) == SelectSeq(data, LAMBDA r : r.timestamp % 24 \in 9..17)

OutsidePeakHours(data) == SelectSeq(data, LAMBDA r : r.timestamp % 24 \notin 9..17)

\* C13: calculateBreakdown counts a reading as peak exactly when its hour is
\* in 9..17; peak_cost is 0.15 times the sum of the peak readings,
\* off_peak_cost 0.08 times the sum of the others, demand_charges 10 times
\* the largest peak reading (0 without one), and taxes 8% of peak_cost +
\* off_peak_cost + demand_charges + fixed_charges.
C13_BreakdownFormulas ==
  Len(costRuns) > 0 =>
    LET b == LastRun(costRuns).breakdown
        peak == InPeakHours(input.current)
        offPeak == OutsidePeakHours(input.current)
    IN  /\ b.peak_cost = Fin(15 * SumValues(peak), 100)
        /\ b.off_peak_cost = Fin(8 * SumValues(offPeak), 100)
        /\ b.demand_charges = Num(10 * MaxOrZero({r.value : r \in Range(peak)}))
        /\ b.taxes = JsMul(Fin(8, 100),
                           JsAdd(JsAdd(b.peak_cost, b.off_peak_cost),
                                 JsAdd(b.demand_charges, b.fixed_charges)))

\* a breakdown of a reading at an end of the peak period (09:00 or 17:00)
\* and a higher reading just outside it (08:00 or 18:00)
C13_Witness ==
  /\ Len(costRuns) > 0
  /\ \E p, o \in Range(input.current) :
       /\ p.timestamp \in {9, 17}
       /\ o.timestamp \in {8, 18}
       /\ o.value > p.value
       /\ LastRun(costRuns).breakdown.demand_charges = Num(10 * p.value)

\* costs in hundredths, as integers
CostCents(r) == r.value * (IF r.timestamp % 24 \in 9..17 THEN 15 ELSE 8)

RECURSIVE SumCents(_)
SumCents(data) ==
  IF data = <<>> THEN 0 ELSE CostCents(data[1]) + SumCents(Tail(data))

\* (N * (cost - mean))^2 of reading i, N being the number of readings
ScaledSquare(data, i) ==
  (Len(data) * CostCents(data[i]) - SumCents(data))
    * (Len(data) * CostCents(data[i]) - SumCents(data))

RECURSIVE SumScaledSquares(_, _)
SumScaledSquares(data, i) ==
  IF i = 0 THEN 0 ELSE ScaledSquare(data, i) + SumScaledSquares(data, i - 1)

\* deviation of reading i > c, for the population standard deviation:
\* (cost - mean)^2 > c^2 * variance, the variance being positive
DeviationAbove(data, i, c) ==
  /\ SumScaledSquares(data, Len(data)) > 0
  /\ Len(data) * ScaledSquare(data, i) > c * c * SumScaledSquares(data, Len(data))

SeverityRank(s) == IF s = "low" THEN 0 ELSE IF s = "medium" THEN 1 ELSE 2

\* C14: the severity of each anomaly is a function of its deviation
\* |cost - mean| / population standard deviation alone: 'high' when it is
\* above 2, 'medium' when above 1, 'low' otherwise; and it is monotone: of
\* two anomalies with deviations d1 < d2 the second is at least as severe.
C14_SeverityByDeviation ==
  Len(costRuns) > 0 =>
    LET a == LastRun(costRuns).anomalies
        data == input.current
    IN  /\ Len(a) = Len(data)
        /\ \A i \in 1..Len(a) :
             a[i].severity = IF DeviationAbove(data, i, 2) THEN "high"
                             ELSE IF DeviationAbove(data, i, 1) THEN "medium"
                             ELSE "low"
        /\ \A i, j \in 1..Len(a) :
             /\ (SumScaledSquares(data, Len(data)) > 0
                 /\ ScaledSquare(data, i) < ScaledSquare(data, j))
                  => SeverityRank(a[i].severity) <= SeverityRank(a[j].severity)
             /\ ScaledSquare(data, i) = ScaledSquare(data, j)
                  => a[i].severity = a[j].severity

\* a run with an anomaly of each of two severities, the less deviating one
\* 'low' and the more deviating one 'high'
C14_Witness ==
  /\ Len(costRuns) > 0
  /\ \E i, j \in 1..Len(LastRun(costRuns).anomalies) :
       /\ ScaledSquare(input.current, i) < ScaledSquare(input.current, j)
       /\ LastRun(costRuns).anomalies[i].severity = "low"
       /\ LastRun(costRuns).anomalies[j].severity = "high"

\* ============================ claims: demand trend and recommendations
\* the sum of the consecutive deltas of the first n values of a batch
RECURSIVE DeltaSum(_, _)
DeltaSum(data, n) ==
  IF n < 2 THEN 0
  ELSE (data[n].value - data[n - 1].value) + DeltaSum(data, n - 1)

OfType(recs, type) == {i \in 1..Len(recs) : recs[i].type = type}

C17_EmptyBatchProfile ==
  (lastCall.op = "analyze" /\ lastCall.data = <<>> /\ lastCall.beforeLen = 0) =>
    /\ profile.currentDemand = 0
    /\ profile.peakDemand = 0
    /\ IsZero(profile.predictedPeak)
    /\ profile.demandTrend = "stable"
    /\ profile.recommendations = <<>>

\* C18: an 'immediate' recommendation is emitted exactly when currentDemand
\* is above 0.8 times peakDemand; its priority is 'high' and its impact is
\* currentDemand - 0.7 * peakDemand rounded to one decimal (for the whole
\* reading values of the batches that difference is a whole number of
\* tenths, which the rounding leaves as it is).
C18_ImmediateAboveThreshold ==
  lastCall.op = "analyze" =>
    LET recs == profile.recommendations
        immediate == OfType(recs, "immediate")
    IN  /\ (immediate # {}) <=> (10 * profile.currentDemand > 8 * profile.peakDemand)
        /\ Cardinality(immediate) <= 1
        /\ \A i \in immediate :
             /\ recs[i].priority = "high"
             /\ recs[i].impact =
                  Fin(10 * profile.currentDemand - 7 * profile.peakDemand, 10)

\* an analysis whose batch ended on its highest reading, with the immediate
\* recommendation emitted
C18_Witness ==
  /\ lastCall.op = "analyze"
  /\ Len(lastCall.data) >= 2
  /\ lastCall.data[1].value < profile.currentDemand
  /\ profile.currentDemand = profile.peakDemand
  /\ \E i \in OfType(profile.recommendations, "immediate") :
       JsGt(profile.recommendations[i].impact, Num(0))

\* ============================================== claims: sustainability
\* C19: analyzeSustainability of an empty array returns all-zero metrics:
\* carbonFootprint.totalEmissions 0, renewableEnergy.percentage 0,
\* efficiency.wasteEnergy 0 and no sustainabilityScore.recommendations.
C19_EmptyAllZero ==
  (Len(sustRuns) > 0 /\ input.current = <<>>) =>
    LET m == LastRun(sustRuns) IN
    /\ IsZero(m.carbonFootprint.totalEmissions)
    /\ IsZero(m.renewableEnergy.percentage)
    /\ IsZero(m.efficiency.wasteEnergy)
    /\ m.sustainabilityScore.recommendations = <<>>

IsWholeBetween(x, lo, hi) ==
  x.k = "fin" /\ x.d = 1 /\ x.n >= lo /\ x.n <= hi

IsBetween(x, lo, hi) ==
  x.k = "fin" /\ x.n >= lo * x.d /\ x.n <= hi * x.d

\* C20: sustainabilityScore.overall is a whole number from 0 to 100, equal
\* to round(0.3*carbonScore + 0.3*renewableScore + 0.2*efficiencyScore +
\* 0.2*wasteScore); the weights sum to 1 and each component score is
\* between 0 and 100.
C20_OverallScore ==
  Len(sustRuns) > 0 =>
    LET sc == LastRun(sustRuns).sustainabilityScore
        c == sc.components
        weighted == JsDiv(JsAdd(JsAdd(JsMul(Num(3), c.carbonScore),
                                      JsMul(Num(3), c.renewableScore)),
                                JsAdd(JsMul(Num(2), c.efficiencyScore),
                                      JsMul(Num(2), c.wasteScore))),
                          Num(10))
    IN  /\ IsWholeBetween(sc.overall, 0, 100)
        /\ sc.overall = JsRound(weighted)
        /\ IsBetween(c.carbonScore, 0, 100)
        /\ IsBetween(c.renewableScore, 0, 100)
        /\ IsBetween(c.efficiencyScore, 0, 100)
        /\ IsBetween(c.wasteScore, 0, 100)

OfCategory(recs, category) == {i \in 1..Len(recs) : recs[i].category = category}

\* score < limit as JavaScript decides it: false for NaN
ScoreBelow(x, limit) == x.k = "fin" /\ x.n < limit * x.d

\* C21: analyzeSustainability emits a 'carbon' recommendation, of priority
\* 'high', exactly when carbonScore < 70 and a 'renewable' recommendation,
\* of priority 'medium', exactly when renewableScore < 50; so a reading set
\* with a carbonScore below 70 always gets a high-priority recommendation.
C21_RecommendationsByScore ==
  Len(sustRuns) > 0 =>
    LET sc == LastRun(sustRuns).sustainabilityScore
        recs == sc.recommendations
    IN  /\ (OfCategory(recs, "carbon") # {}) <=> ScoreBelow(sc.components.carbonScore, 70)
        /\ (OfCategory(recs, "renewable") # {})
             <=> ScoreBelow(sc.components.renewableScore, 50)
        /\ Cardinality(OfCategory(recs, "carbon")) <= 1
        /\ Cardinality(OfCategory(recs, "renewable")) <= 1
        /\ \A i \in OfCategory(recs, "carbon") : recs[i].priority = "high"
        /\ \A i \in OfCategory(recs, "renewable") : recs[i].priority = "medium"
        /\ ScoreBelow(sc.components.carbonScore, 70)
             => \E i \in 1..Len(recs) : recs[i].priority = "high"

\* an analysis of readings with usage, whose scores are low, that gave both
\* recommendations
C21_Witness ==
  /\ Len(sustRuns) > 0
  /\ SumValues(input.current) > 0
  /\ ScoreBelow(LastRun(sustRuns).sustainabilityScore.components.carbonScore, 70)
  /\ OfCategory(LastRun(sustRuns).sustainabilityScore.recommendations, "carbon") # {}
  /\ OfCategory(LastRun(sustRuns).sustainabilityScore.recommendations, "renewable") # {}


\* ================================================== claims: bill analyzer
SettledCalls == {c \in Callers : bill.calls[c].pc = "settled"}

\* C22: when the text-generation request made by billAnalyzer.analyze fails
\* (the client answers with content that does not parse, or its promise
\* rejects), analyze still resolves, to a result with isError true, an error,
\* averageCostPerKwh 0 and no anomalies and no saving opportunities.
C22_FailedRequestResolvesToError ==
  \A c \in SettledCalls :
    LET call == bill.calls[c]
    IN  call.reply \in {"unparsable", "rejects"} =>
          /\ call.outcome.kind = "resolved"
          /\ call.outcome.result.isError
          /\ call.outcome.result.error # "none"
          /\ call.outcome.result.averageCostPerKwh = 0
          /\ call.outcome.result.anomalies = <<>>
          /\ call.outcome.result.savingOpportunities = <<>>

\* C23: a result that analyze resolves to without an error is the analysis
\* of the readings that very call was given: a cached result is never handed
\* to a call whose usage data differs from the data it was computed from.
C23_ResultIsOfOwnReadings ==
  \A c \in SettledCalls :
    LET call == bill.calls[c]
    IN  (call.outcome.kind = "resolved" /\ ~call.outcome.result.isError) =>
          call.outcome.result.readings = call.usageData


\* ============================================ claims: useRealtimeUpdates
\* C24: while nothing but the mount, the update interval and fetches that
\* succeed has happened, supabase.from has been called once for the mount and
\* once more for every interval that elapsed.
C24_OneQueryPerInterval ==
  rt.onlyIntervals => rt.fromCalls = 1 + rt.intervalsFired

OpenCount(r) ==
  LET open == OpenSockets(r)
      RECURSIVE Sum(_)
      Sum(S) == IF S = {} THEN 0
                ELSE LET s == CHOOSE x \in S : TRUE
                     IN  CopiesIn(s, r.sockets) + Sum(S \ {s})
  IN  Sum(open)

\* a step in which the query of a fetchLatestData call settles: it is the
\* only step that takes a call out of flight without a new supabase.from call
FetchSettles ==
  BagCardinality(rt'.inflight) - rt'.fromCalls
    = BagCardinality(rt.inflight) - rt.fromCalls - 1

\* C30: retryCount never exceeds retryAttempts; a settling fetch arms a
\* backoff retry only while retryCount < retryAttempts and opens the fallback
\* WebSocket only once retryCount has reached retryAttempts; at most one
\* fallback WebSocket is open at any time.
C30_RetryThenOneFallback ==
  /\ [](rt.retryCount <= RETRY_ATTEMPTS /\ OpenCount(rt) <= 1)
  /\ [][FetchSettles =>
          /\ BagCardinality(rt'.timers) > BagCardinality(rt.timers)
               => rt.retryCount < RETRY_ATTEMPTS
          /\ BagCardinality(rt'.sockets) > BagCardinality(rt.sockets)
               => rt.retryCount >= RETRY_ATTEMPTS]_vars


\* ============================================== claims: peak prediction
\* the mean of the readings of data taken at hour h of the day, 0 without any
HourMean(data, h) ==
  LET at == {i \in 1..Len(data) : getHours(data[i].timestamp) = h}
  IN  IF at = {} THEN Num(0)
      ELSE Fin(SumInts([i \in 1..Len(data) |->
                          IF i \in at THEN data[i].value ELSE 0]),
               Cardinality(at))

\* C25: for fewer than 24 readings the prediction is the placeholder
\* (predictedDemand 0, confidence 0); for 24 or more, predictedDemand is 1.45
\* times the highest hour-of-day average, confidence is 0.85, the range is
\* [0.9 p, 1.1 p], and the timestamp is the next occurrence of that hour:
\* strictly after the time of the call and at most 24 hours after it.
C25_NextPeakPrediction ==
  lastCall.op = "analyze" =>
    LET data == lastCall.data
        p == profile.predictions.nextPeak
    IN  IF Len(data) < 24
          THEN p.predictedDemand = Num(0) /\ p.confidence = Num(0)
          ELSE \E h \in 0..23 :
                 /\ \A g \in 0..23 : JsLe(HourMean(data, g), HourMean(data, h))
                 /\ p.predictedDemand = JsMul(Fin(145, 100), HourMean(data, h))
                 /\ p.confidence = Fin(85, 100)
                 /\ p.range.low = JsMul(Fin(9, 10), p.predictedDemand)
                 /\ p.range.high = JsMul(Fin(11, 10), p.predictedDemand)
                 /\ getHours(p.timestamp) = h
                 /\ p.timestamp > lastCall.at
                 /\ p.timestamp - lastCall.at <= 24

\* more than 24 readings, one hour's average above the others', and that
\* hour is the hour of the call: the peak is predicted for the next day
C25_Witness ==
  /\ lastCall.op = "analyze"
  /\ Len(lastCall.data) > 24
  /\ JsGt(profile.predictions.nextPeak.predictedDemand, Fin(145, 100))
  /\ profile.predictions.nextPeak.timestamp = lastCall.at + 24


\* ================================= claims: saving opportunities, patterns
RECURSIVE SumCellCosts(_, _)
SumCellCosts(cells, ks) ==
  IF ks = {} THEN Num(0)
  ELSE LET k == CHOOSE x \in ks : TRUE
       IN  JsAdd(cells[k].cost, SumCellCosts(cells, ks \ {k}))

RECURSIVE SumOver(_)
SumOver(numbers) ==
  IF numbers = <<>> THEN Num(0)
  ELSE JsAdd(numbers[1], SumOver(Tail(numbers)))

\* C26: the report holds a 'rate-optimization' opportunity exactly when the
\* average cost over the peak-hour cells (hour 9 to 17) of its time-of-use
\* matrix exceeds 0.18; for an empty input it holds no opportunity at all.
C26_RateOptimizationRule ==
  Len(costRuns) > 0 =>
    LET r == LastRun(costRuns)
        peakCells == {k \in 1..Len(r.timeOfUse) : r.timeOfUse[k].hour \in 9..17}
        OfDay(w) == {k \in peakCells : r.timeOfUse[k].weekday = w}
        total == SumOver([w \in 1..7 |-> SumCellCosts(r.timeOfUse, OfDay(w - 1))])
        average == JsDiv(total, Num(Cardinality(peakCells)))
    IN  /\ (OfCategory(r.savingOpportunities, "rate-optimization") # {})
             <=> JsGt(average, Fin(18, 100))
        /\ input.current = <<>> => r.savingOpportunities = <<>>

\* the mean of the readings of data with index in at, 0 for none
MeanAt(data, at) ==
  IF at = {} THEN Num(0)
  ELSE Fin(SumInts([i \in 1..Len(data) |-> IF i \in at THEN data[i].value ELSE 0]),
           Cardinality(at))

\* getMonth() of a timestamp, 0 for January (years of 365 days)
MonthOf(timestamp) ==
  LET dayOfYear == (timestamp \div 24) % 365
      firstDays == {31, 59, 90, 120, 151, 181, 212, 243, 273, 304, 334}
  IN  Cardinality({d \in firstDays : d <= dayOfYear})

\* C27: every entry of the daily, weekly and seasonal usage patterns is the
\* aggregate of its own bucket: avgUsage is the mean of the readings of that
\* hour, weekday or month (0 without any), and confidence is
\* min(1, count / N) with count the number of those readings and N = 30, 4
\* and 30.
C27_UsagePatternsPerBucket ==
  Len(costRuns) > 0 =>
    LET data == input.current
        u == LastRun(costRuns).mlInsights.usagePatterns
        Holds(entry, at, n) ==
          /\ entry.avgUsage = MeanAt(data, at)
          /\ entry.confidence = JsMin(Num(1), Fin(Cardinality(at), n))
    IN  /\ \A k \in 1..24 :
             Holds(u.daily[k],
                   {i \in 1..Len(data) : getHours(data[i].timestamp) = u.daily[k].hour}, 30)
        /\ \A k \in 1..7 :
             Holds(u.weekly[k],
                   {i \in 1..Len(data) : getDay(data[i].timestamp) = u.weekly[k].day}, 4)
        /\ \A k \in 1..12 :
             Holds(u.seasonal[k],
                   {i \in 1..Len(data) : MonthOf(data[i].timestamp) = u.seasonal[k].month}, 30)


\* ===================================== claims: demand buffer and its peak
RECURSIVE CopiesInWindow(_, _, _)
\* how many of the readings of the bag B, out of the set S of its elements,
\* are inside the window at time t
CopiesInWindow(B, S, t) ==
  IF S = {} THEN 0
  ELSE LET r == CHOOSE x \in S : TRUE
       IN  (IF InWindow(r, t) THEN CopiesIn(r, B) ELSE 0)
             + CopiesInWindow(B, S \ {r}, t)

\* C28: the buffer is never deduplicated: its length is the number of
\* readings ever appended that are inside the 30-day window of the most
\* recent call, and when all that was appended is n times one in-window
\* batch of k readings, the buffer holds n * k entries.
C28_NoDeduplication ==
  /\ Len(historicalData) = CopiesInWindow(appended, BagToSet(appended), lastCall.at)
  /\ \A n \in 1..MaxAppended :
       ( /\ lastCall.op = "analyze"
         /\ \A r \in Range(lastCall.data) : InWindow(r, lastCall.at)
         /\ BagToSet(appended) = Range(lastCall.data)
         /\ \A r \in Range(lastCall.data) :
              CopiesIn(r, appended) = n * Occurrences(r, lastCall.data) )
       => Len(historicalData) = n * Len(lastCall.data)

\* the same in-window batch analysed a second time: twice its readings
C28_Witness ==
  /\ lastCall.op = "analyze"
  /\ Len(lastCall.data) > 0
  /\ lastCall.beforeLen = Len(lastCall.data)
  /\ \A r \in Range(lastCall.data) : InWindow(r, lastCall.at)
  /\ BagToSet(appended) = Range(lastCall.data)
  /\ \A r \in Range(lastCall.data) :
       CopiesIn(r, appended) = 2 * Occurrences(r, lastCall.data)
  /\ Len(historicalData) = 2 * Len(lastCall.data)

\* C29: when the last reading of the analysed batch is inside the window,
\* peakDemand >= currentDemand; and from one analyzeDemand call to the next
\* peakDemand does not decrease unless a retained reading aged out of the
\* window.
C29_PeakDominates ==
  /\ []( ( /\ lastCall.op = "analyze"
           /\ lastCall.data # <<>>
           /\ InWindow(lastCall.data[Len(lastCall.data)], lastCall.at) )
         => profile.peakDemand >= profile.currentDemand )
  /\ [][ ( /\ lastCall.op = "analyze"
           /\ lastCall'.op = "analyze"
           /\ historicalData' # historicalData \/ lastCall' # lastCall
           /\ \A r \in Range(historicalData) : InWindow(r, lastCall'.at) )
         => profile'.peakDemand >= profile.peakDemand ]_vars

\* a second analysis whose batch lies below the peak kept from the first
C29_Witness ==
  /\ lastCall.op = "analyze"
  /\ lastCall.beforeLen > 0
  /\ lastCall.data # <<>>
  /\ InWindow(lastCall.data[Len(lastCall.data)], lastCall.at)
  /\ profile.peakDemand > profile.currentDemand
  /\ \A r \in Range(lastCall.data) : r.value < profile.peakDemand

====
